---- MODULE Spec2Model ----
(***************************************************************************)
(* Gazarr acquisition pipeline: the shared DownloadJob store and the three *)
(* polling loops that mutate it (auto-download scheduler, SABnzbd status   *)
(* tracker, completion monitor), plus the manual enqueue endpoint.         *)
(*                                                                         *)
(* All loops are asyncio coroutines on one event loop: code between two    *)
(* awaits runs without interleaving, so every action below covers the code *)
(* from one suspension point to the next.                                  *)
(***************************************************************************)
EXTENDS Integers, Sequences, FiniteSets, TLC

(***************************************************************************)
(* Bounds of the model                                                     *)
(***************************************************************************)
\* rows the job store may hold (the code never deletes a row in the pipeline)
MaxJobs == 2
\* last value of the clock read by datetime.utcnow() / time.time()
MaxTime == 2
\* AppConfig.auto_fail_minutes, in clock ticks
AutoFailMinutes == 1
\* MonitorConfig.settle_seconds, in clock ticks
SettleSeconds == 1
\* AutoDownloadConfig.max_results_per_scan values the scans are run with
MaxResultsBound == 2
\* scan_now calls in flight at once
MaxManual == 1
\* words of a release title after the magazine's name
MaxWords == 2

(***************************************************************************)
(* Python values                                                           *)
(***************************************************************************)
\* None of an Optional[str] field
None == "None"
\* None of an Optional[int] / Optional[datetime] / Optional[float] field
NoInt == -1

\* truthiness of an Optional[str]: neither None nor ""
Truthy(s) == s # None /\ s # ""

(***************************************************************************)
(* Text: strings are atoms in the state; the string functions of the code  *)
(* (lower, strip, split, `in`, replace, Path.stem) work on their spelling. *)
(***************************************************************************)
Chars(s) ==
    CASE s = "" -> <<>>
      [] s = "Downloading" -> <<"D", "o", "w", "n", "l", "o", "a", "d", "i", "n", "g">>
      [] s = "Paused" -> <<"P", "a", "u", "s", "e", "d">>
      [] s = "Queued" -> <<"Q", "u", "e", "u", "e", "d">>
      [] s = "Fetching" -> <<"F", "e", "t", "c", "h", "i", "n", "g">>
      [] s = "Completed" -> <<"C", "o", "m", "p", "l", "e", "t", "e", "d">>
      [] s = "Failed" -> <<"F", "a", "i", "l", "e", "d">>
      [] s = "pending" -> <<"p", "e", "n", "d", "i", "n", "g">>
      [] s = "queued" -> <<"q", "u", "e", "u", "e", "d">>
      [] s = "downloading" -> <<"d", "o", "w", "n", "l", "o", "a", "d", "i", "n", "g">>
      [] s = "processing" -> <<"p", "r", "o", "c", "e", "s", "s", "i", "n", "g">>
      [] s = "paused" -> <<"p", "a", "u", "s", "e", "d">>
      [] s = "completed" -> <<"c", "o", "m", "p", "l", "e", "t", "e", "d">>
      [] s = "failed" -> <<"f", "a", "i", "l", "e", "d">>
      [] s = "moved" -> <<"m", "o", "v", "e", "d">>
      [] s = "fetching" -> <<"f", "e", "t", "c", "h", "i", "n", "g">>
      [] s = "Processed" -> <<"P", "r", "o", "c", "e", "s", "s", "e", "d">>
      [] s = "Wired" -> <<"W", "i", "r", "e", "d">>
      [] s = "wired" -> <<"w", "i", "r", "e", "d">>
      [] s = "Wired 2025 01" -> <<"W", "i", "r", "e", "d", " ", "2", "0", "2", "5", " ", "0", "1">>
      [] s = "Wired 2024 06" -> <<"W", "i", "r", "e", "d", " ", "2", "0", "2", "4", " ", "0", "6">>
      [] s = "WIRED.2024.06" -> <<"W", "I", "R", "E", "D", ".", "2", "0", "2", "4", ".", "0", "6">>
      [] s = "wired 2025 01" -> <<"w", "i", "r", "e", "d", " ", "2", "0", "2", "5", " ", "0", "1">>
      [] s = "wired 2024 06" -> <<"w", "i", "r", "e", "d", " ", "2", "0", "2", "4", " ", "0", "6">>
      [] s = "wired.2024.06" -> <<"w", "i", "r", "e", "d", ".", "2", "0", "2", "4", ".", "0", "6">>
      [] s = "wired.2024" -> <<"w", "i", "r", "e", "d", ".", "2", "0", "2", "4">>
      [] s = "Wired 2025 01.pdf" -> <<"W", "i", "r", "e", "d", " ", "2", "0", "2", "5", " ", "0", "1", ".", "p", "d", "f">>
      [] s = "wired 2025 01.pdf" -> <<"w", "i", "r", "e", "d", " ", "2", "0", "2", "5", " ", "0", "1", ".", "p", "d", "f">>
      [] s = "Wired_01_2025" -> <<"W", "i", "r", "e", "d", "_", "0", "1", "_", "2", "0", "2", "5">>
      [] s = "wired_01_2025" -> <<"w", "i", "r", "e", "d", "_", "0", "1", "_", "2", "0", "2", "5">>
      [] s = "20250001" -> <<"2", "0", "2", "5", "0", "0", "0", "1">>
      [] s = "20240006" -> <<"2", "0", "2", "4", "0", "0", "0", "6">>
      [] s = "mag" -> <<"m", "a", "g">>
      [] s = "magazine" -> <<"m", "a", "g", "a", "z", "i", "n", "e">>
      [] s = "ebook" -> <<"e", "b", "o", "o", "k">>
      [] s = "digital" -> <<"d", "i", "g", "i", "t", "a", "l">>
      [] s = "issue" -> <<"i", "s", "s", "u", "e">>
      [] s = "revista" -> <<"r", "e", "v", "i", "s", "t", "a">>
      [] s = "code" -> <<"c", "o", "d", "e">>
      [] s = "title" -> <<"t", "i", "t", "l", "e">>
      [] s = "WIRED.2024" -> <<"W", "I", "R", "E", "D", ".", "2", "0", "2", "4">>
      [] s = "failure" -> <<"f", "a", "i", "l", "u", "r", "e">>
      [] s = "Wired_06_2024" -> <<"W", "i", "r", "e", "d", "_", "0", "6", "_", "2", "0", "2", "4">>
      [] s = "wired_06_2024" -> <<"w", "i", "r", "e", "d", "_", "0", "6", "_", "2", "0", "2", "4">>
      [] s = "Checking" -> <<"C", "h", "e", "c", "k", "i", "n", "g">>
      [] s = "checking" -> <<"c", "h", "e", "c", "k", "i", "n", "g">>
      [] s = "März" -> <<"M", "ä", "r", "z">>
      [] s = "Month " -> <<"M", "o", "n", "t", "h", " ">>
      [] s = "Vol " -> <<"V", "o", "l", " ">>
      [] s = "Issue " -> <<"I", "s", "s", "u", "e", " ">>
      [] s = "Issue" -> <<"I", "s", "s", "u", "e">>
      [] s = "Fernsehwoche" -> <<"F", "e", "r", "n", "s", "e", "h", "w", "o", "c", "h", "e">>
      [] s = "HQ" -> <<"H", "Q">>
      [] s = "5" -> <<"5">>
      [] s = "2024" -> <<"2", "0", "2", "4">>
      [] s = "202405" -> <<"2", "0", "2", "4", "0", "5">>
      [] s = "202705" -> <<"2", "0", "2", "7", "0", "5">>
      [] s = "052024" -> <<"0", "5", "2", "0", "2", "4">>
      [] s = "en" -> <<"e", "n">>
      [] s = "de" -> <<"d", "e">>
      [] s = "es" -> <<"e", "s">>
      [] s = "Fernsehwoche März 2024" -> <<"F", "e", "r", "n", "s", "e", "h", "w", "o", "c", "h", "e", " ", "M", "ä", "r", "z", " ", "2", "0", "2", "4">>
      [] s = "März 2024" -> <<"M", "ä", "r", "z", " ", "2", "0", "2", "4">>
      [] s = "Extracting" -> <<"E", "x", "t", "r", "a", "c", "t", "i", "n", "g">>
      [] s = "extracting" -> <<"e", "x", "t", "r", "a", "c", "t", "i", "n", "g">>
      [] s = "QuickCheck" -> <<"Q", "u", "i", "c", "k", "C", "h", "e", "c", "k">>
      [] s = "Waiting" -> <<"W", "a", "i", "t", "i", "n", "g">>
      [] s = "paused download" -> <<"p", "a", "u", "s", "e", "d", " ", "d", "o", "w", "n", "l", "o", "a", "d">>
      [] s = "post paused" -> <<"p", "o", "s", "t", " ", "p", "a", "u", "s", "e", "d">>
      [] s = "pause queued" -> <<"p", "a", "u", "s", "e", " ", "q", "u", "e", "u", "e", "d">>
      [] s = "Fetching NZB" -> <<"F", "e", "t", "c", "h", "i", "n", "g", " ", "N", "Z", "B">>
      [] s = "fetching nzb" -> <<"f", "e", "t", "c", "h", "i", "n", "g", " ", "n", "z", "b">>
      [] s = "fetching_nzb" -> <<"f", "e", "t", "c", "h", "i", "n", "g", "_", "n", "z", "b">>
      [] s = "idle" -> <<"i", "d", "l", "e">>
      [] s = "Failure" -> <<"F", "a", "i", "l", "u", "r", "e">>
      [] s = "Edge" -> <<"E", "d", "g", "e">>
      [] s = "edge" -> <<"e", "d", "g", "e">>
      [] s = "Edge 2024 06" -> <<"E", "d", "g", "e", " ", "2", "0", "2", "4", " ", "0", "6">>
      [] s = "edge 2024 06" -> <<"e", "d", "g", "e", " ", "2", "0", "2", "4", " ", "0", "6">>
      [] s = "Edge Extra " -> <<"E", "d", "g", "e", " ", "E", "x", "t", "r", "a", " ">>
      [] s = "Edge Extra" -> <<"E", "d", "g", "e", " ", "E", "x", "t", "r", "a">>
      [] s = "edge extra" -> <<"e", "d", "g", "e", " ", "e", "x", "t", "r", "a">>

Vocabulary ==
    {"", "Downloading", "Paused", "Queued", "Fetching",
     "Completed", "Failed", "pending", "queued", "downloading",
     "processing", "paused", "completed", "failed", "moved",
     "fetching", "Processed", "Wired", "wired", "Wired 2025 01",
     "Wired 2024 06", "WIRED.2024.06", "wired 2025 01", "wired 2024 06", "wired.2024.06",
     "wired.2024", "Wired 2025 01.pdf", "wired 2025 01.pdf", "Wired_01_2025", "wired_01_2025",
     "Wired_06_2024", "wired_06_2024", "20250001", "20240006",
     "mag", "magazine", "ebook", "digital", "issue", "revista", "code", "title", "WIRED.2024", "failure",
     "Checking", "checking", "Extracting", "extracting", "QuickCheck", "Waiting",
     "paused download", "post paused", "pause queued", "Fetching NZB", "fetching nzb",
     "fetching_nzb", "idle", "Failure", "Edge", "edge", "Edge 2024 06", "edge 2024 06",
     "Edge Extra", "edge extra"}

LowerChar(c) ==
    CASE c = "A" -> "a"
      [] c = "B" -> "b"
      [] c = "C" -> "c"
      [] c = "D" -> "d"
      [] c = "E" -> "e"
      [] c = "F" -> "f"
      [] c = "G" -> "g"
      [] c = "H" -> "h"
      [] c = "I" -> "i"
      [] c = "J" -> "j"
      [] c = "K" -> "k"
      [] c = "L" -> "l"
      [] c = "M" -> "m"
      [] c = "N" -> "n"
      [] c = "O" -> "o"
      [] c = "P" -> "p"
      [] c = "Q" -> "q"
      [] c = "R" -> "r"
      [] c = "S" -> "s"
      [] c = "T" -> "t"
      [] c = "U" -> "u"
      [] c = "V" -> "v"
      [] c = "W" -> "w"
      [] c = "X" -> "x"
      [] c = "Y" -> "y"
      [] c = "Z" -> "z"
      [] c = "Ä" -> "ä"
      [] OTHER -> c

\* the spelling of every string of the vocabulary, tabulated once
Spellings == [s \in Vocabulary |-> Chars(s)]

\* the string of a spelling
FromChars(cs) == CHOOSE s \in Vocabulary : Spellings[s] = cs

LowerSeq(cs) == [i \in 1..Len(cs) |-> LowerChar(cs[i])]

\* str.lower()
Lower(s) == FromChars(LowerSeq(Chars(s)))

\* `sub in value` on spellings
Contains(cs, sub) ==
    \E i \in 1..(Len(cs) - Len(sub) + 1) : SubSeq(cs, i, i + Len(sub) - 1) = sub

\* value.replace(" ", "_")
ReplaceSpaces(s) ==
    FromChars([i \in 1..Len(Chars(s)) |-> IF Chars(s)[i] = " " THEN "_" ELSE Chars(s)[i]])

\* position of the last "." of a spelling, 0 when there is none
LastDot(cs) ==
    IF \E i \in 1..Len(cs) : cs[i] = "."
    THEN CHOOSE i \in 1..Len(cs) : cs[i] = "." /\ \A j \in (i+1)..Len(cs) : cs[j] # "."
    ELSE 0

\* pathlib.PurePath.stem of a name without directory part: the name up to
\* its last dot, unless that dot is the first or the last character
Stem(s) ==
    LET UpTo(cs, d) == IF d > 1 /\ d < Len(cs) THEN FromChars(SubSeq(cs, 1, d - 1)) ELSE s
        OfSpelling(cs) == UpTo(cs, LastDot(cs))
    IN OfSpelling(Chars(s))

RECURSIVE StripLeft(_)
StripLeft(cs) == IF cs # <<>> /\ Head(cs) = " " THEN StripLeft(Tail(cs)) ELSE cs

RECURSIVE StripRight(_)
StripRight(cs) ==
    IF cs # <<>> /\ cs[Len(cs)] = " " THEN StripRight(SubSeq(cs, 1, Len(cs) - 1)) ELSE cs

\* str.strip()
Strip(s) == FromChars(StripRight(StripLeft(Chars(s))))

(***************************************************************************)
(* Job store (models.py DownloadJob, services.py)                          *)
(***************************************************************************)
\* the row DownloadJob(...) of a first upsert: every field not passed to the
\* constructor takes its default
NewJob(a, t) ==
    [sabnzbd_id |-> a.nzo_id,
     title |-> a.title,
     magazine_title |-> a.magazine_title,
     link |-> a.link,
     content_name |-> None,
     status |-> a.status,
     sab_status |-> None,
     progress |-> NoInt,
     time_remaining |-> None,
     message |-> None,
     clean_name |-> None,
     staging_path |-> None,
     issue_code |-> a.issue_code,
     issue_label |-> a.issue_label,
     issue_year |-> a.issue_year,
     issue_month |-> a.issue_month,
     issue_number |-> a.issue_number,
     last_seen |-> NoInt,
     created_at |-> t,
     updated_at |-> t,
     completed_at |-> NoInt,
     moved_at |-> NoInt]

\* a lookup that never finds the row
GetDownloadJobByNzo_Blind(js, nzo) == 0

\* index of the first row with this SABnzbd id, 0 when there is none
GetDownloadJobByNzo(js, nzo) ==
    IF \E i \in 1..Len(js) : js[i].sabnzbd_id = nzo
    THEN CHOOSE i \in 1..Len(js) :
            js[i].sabnzbd_id = nzo /\ \A k \in 1..(i-1) : js[k].sabnzbd_id # nzo
    ELSE 0

\* the field assignments of upsert_download_job on an existing row
UpsertFields(job, a) ==
    [job EXCEPT
        !.title = IF Truthy(a.title) /\ @ # a.title THEN a.title ELSE @,
        !.magazine_title = IF a.magazine_title # None /\ @ # a.magazine_title
                           THEN a.magazine_title ELSE @,
        !.link = IF Truthy(a.link) /\ @ # a.link THEN a.link ELSE @,
        !.status = IF Truthy(a.status) /\ @ # a.status THEN a.status ELSE @,
        !.issue_code = IF a.issue_code # None /\ @ # a.issue_code THEN a.issue_code ELSE @,
        !.issue_label = IF a.issue_label # None /\ @ # a.issue_label THEN a.issue_label ELSE @,
        !.issue_year = IF a.issue_year # NoInt /\ @ # a.issue_year THEN a.issue_year ELSE @,
        !.issue_month = IF a.issue_month # NoInt /\ @ # a.issue_month THEN a.issue_month ELSE @,
        !.issue_number = IF a.issue_number # NoInt /\ @ # a.issue_number
                         THEN a.issue_number ELSE @]

\* an update that stamps updated_at whether or not a field changed
UpsertExisting_AlwaysStamps(job, a, t) == [UpsertFields(job, a) EXCEPT !.updated_at = t]

\* upsert_download_job on an existing row: `changed` is set exactly when one
\* of the assignments ran, and only then is updated_at refreshed
UpsertExisting(job, a, t) ==
    LET j1 == UpsertFields(job, a)
        changed == j1 # job
    IN IF changed THEN [j1 EXCEPT !.updated_at = t] ELSE j1

UpsertDownloadJob(js, a, t) ==
    LET i == IF Truthy(a.nzo_id) THEN GetDownloadJobByNzo(js, a.nzo_id) ELSE 0
    IN IF i = 0
       THEN Append(js, NewJob(a, t))
       ELSE [js EXCEPT ![i] = UpsertExisting(js[i], a, t)]

\* the keyword arguments of update_download_job_status that its callers leave
\* at their default
NoUpdate ==
    [status |-> None, sab_status |-> None, progress |-> NoInt, time_remaining |-> None,
     message |-> None, content_name |-> None, completed_at |-> NoInt,
     clean_name |-> None, staging_path |-> None]

UpdateFields(job, u) ==
    [job EXCEPT
        !.status = IF Truthy(u.status) /\ @ # u.status THEN u.status ELSE @,
        !.sab_status = IF u.sab_status # None /\ @ # u.sab_status THEN u.sab_status ELSE @,
        !.progress = IF u.progress # NoInt /\ @ # u.progress THEN u.progress ELSE @,
        !.time_remaining = IF u.time_remaining # None /\ @ # u.time_remaining
                           THEN u.time_remaining ELSE @,
        !.message = IF u.message # None /\ @ # u.message THEN u.message ELSE @,
        !.content_name = IF Truthy(u.content_name) /\ @ # u.content_name
                         THEN u.content_name ELSE @,
        !.completed_at = IF u.completed_at # NoInt /\ @ # u.completed_at
                         THEN u.completed_at ELSE @,
        !.clean_name = IF Truthy(u.clean_name) /\ @ # u.clean_name THEN u.clean_name ELSE @,
        !.staging_path = IF Truthy(u.staging_path) /\ @ # u.staging_path
                         THEN u.staging_path ELSE @]

\* update_download_job_status that stamps the row whether or not a field
\* changed
UpdateDownloadJobStatus_AlwaysStamps(job, u, t) ==
    [UpdateFields(job, u) EXCEPT !.last_seen = t, !.updated_at = t]

\* update_download_job_status: last_seen and updated_at are refreshed only
\* when `updated` was set by one of the assignments
UpdateDownloadJobStatus(job, u, t) ==
    LET j1 == UpdateFields(job, u)
        updated == j1 # job
    IN IF updated THEN [j1 EXCEPT !.last_seen = t, !.updated_at = t] ELSE j1

MarkDownloadJobFailed(job, message, t) ==
    UpdateDownloadJobStatus(job,
        [NoUpdate EXCEPT !.status = "failed", !.sab_status = "Failed", !.message = message], t)

\* mark_download_job_moved; clean_name is the stem or name of the destination
MarkDownloadJobMoved(job, destination, t) ==
    [job EXCEPT !.status = "moved", !.sab_status = "Processed", !.moved_at = t,
                !.updated_at = t, !.message = "Moved to library",
                !.clean_name = destination, !.staging_path = None]

\* the statuses list_active_download_jobs would leave out if it forgot moved
TerminalStatuses_FailedOnly == {"failed"}

TerminalStatuses == {"failed", "moved"}

\* a listing that leaves the status filter out
ListActiveDownloadJobs_All(js) == 1..Len(js)

\* list_active_download_jobs: the row ids whose status is not failed / moved
ListActiveDownloadJobs(js) == {i \in 1..Len(js) : js[i].status \notin TerminalStatuses}

Digits == <<"0", "1", "2", "3", "4", "5", "6", "7", "8", "9">>

Letters ==
    {"a", "b", "c", "d", "e", "f", "g", "h", "i", "j", "k", "l", "m",
     "n", "o", "p", "q", "r", "s", "t", "u", "v", "w", "x", "y", "z", "ä"}

\* str.isalnum() of one character
IsAlnum(c) == LowerChar(c) \in Letters \/ \E d \in 1..10 : Digits[d] = c

RECURSIVE DigitsOf(_)
\* str(n) of a natural number
DigitsOf(n) == IF n < 10 THEN <<Digits[n + 1]>> ELSE DigitsOf(n \div 10) \o <<Digits[(n % 10) + 1]>>

RECURSIVE ZeroPad(_, _)
\* f"{n:0{w}d}" of a natural number
ZeroPad(cs, w) == IF Len(cs) >= w THEN cs ELSE ZeroPad(<<"0">> \o cs, w)

RECURSIVE SplitFrom(_, _, _)
\* one pass over the characters: cur is the run being read, acc the runs read
SplitFrom(cs, cur, acc) ==
    LET closed == IF cur = <<>> THEN acc ELSE acc \cup {cur}
    IN IF cs = <<>> THEN closed
       ELSE IF Head(cs) = " " THEN SplitFrom(Tail(cs), <<>>, closed)
       ELSE SplitFrom(Tail(cs), Append(cur, Head(cs)), acc)

\* value.split(): the maximal runs of non-space characters
SplitTokens(cs) == SplitFrom(cs, <<>>, {})

\* _normalize_text, as the set of words of its result
NormalizeTextTokens(s) ==
    SplitTokens([i \in 1..Len(Chars(s)) |->
        IF IsAlnum(Chars(s)[i]) \/ Chars(s)[i] = " " THEN LowerChar(Chars(s)[i]) ELSE " "])

(***************************************************************************)
(* Issue parser (issue_parser.py).  Titles, words, issue codes and labels  *)
(* are spellings (sequences of characters); positions count from 1.       *)
(***************************************************************************)
\* _BASE_MONTH_TABLE[0]: the locale of each column
MONTH_LOCALES ==
    <<<<"e", "n", "_", "G", "B", ".", "U", "T", "F", "-", "8">>, <<"e", "n", "_", "G", "B", ".", "U", "T", "F", "-", "8">>,
      <<"e", "s", "_", "E", "S", ".", "U", "T", "F", "8">>, <<"e", "s", "_", "E", "S", ".", "U", "T", "F", "8">>,
      <<"d", "e", "_", "D", "E", ".", "U", "T", "F", "8">>, <<"d", "e", "_", "D", "E", ".", "U", "T", "F", "8">>>>

\* _BASE_MONTH_TABLE[1..12]: the names of each month, one column per locale
BASE_MONTH_TABLE ==
    <<
      \* January, Jan, enero, ene, Januar, Jan
      <<<<"J", "a", "n", "u", "a", "r", "y">>,
        <<"J", "a", "n">>,
        <<"e", "n", "e", "r", "o">>,
        <<"e", "n", "e">>,
        <<"J", "a", "n", "u", "a", "r">>,
        <<"J", "a", "n">>>>,
      \* February, Feb, febrero, feb, Februar, Feb
      <<<<"F", "e", "b", "r", "u", "a", "r", "y">>,
        <<"F", "e", "b">>,
        <<"f", "e", "b", "r", "e", "r", "o">>,
        <<"f", "e", "b">>,
        <<"F", "e", "b", "r", "u", "a", "r">>,
        <<"F", "e", "b">>>>,
      \* March, Mar, marzo, mar, März, Mär
      <<<<"M", "a", "r", "c", "h">>,
        <<"M", "a", "r">>,
        <<"m", "a", "r", "z", "o">>,
        <<"m", "a", "r">>,
        <<"M", "ä", "r", "z">>,
        <<"M", "ä", "r">>>>,
      \* April, Apr, abril, abr, April, Apr
      <<<<"A", "p", "r", "i", "l">>,
        <<"A", "p", "r">>,
        <<"a", "b", "r", "i", "l">>,
        <<"a", "b", "r">>,
        <<"A", "p", "r", "i", "l">>,
        <<"A", "p", "r">>>>,
      \* May, May, mayo, may, Mai, Mai
      <<<<"M", "a", "y">>,
        <<"M", "a", "y">>,
        <<"m", "a", "y", "o">>,
        <<"m", "a", "y">>,
        <<"M", "a", "i">>,
        <<"M", "a", "i">>>>,
      \* June, Jun, junio, jun, Juni, Jun
      <<<<"J", "u", "n", "e">>,
        <<"J", "u", "n">>,
        <<"j", "u", "n", "i", "o">>,
        <<"j", "u", "n">>,
        <<"J", "u", "n", "i">>,
        <<"J", "u", "n">>>>,
      \* July, Jul, julio, jul, Juli, Jul
      <<<<"J", "u", "l", "y">>,
        <<"J", "u", "l">>,
        <<"j", "u", "l", "i", "o">>,
        <<"j", "u", "l">>,
        <<"J", "u", "l", "i">>,
        <<"J", "u", "l">>>>,
      \* August, Aug, agosto, ago, August, Aug
      <<<<"A", "u", "g", "u", "s", "t">>,
        <<"A", "u", "g">>,
        <<"a", "g", "o", "s", "t", "o">>,
        <<"a", "g", "o">>,
        <<"A", "u", "g", "u", "s", "t">>,
        <<"A", "u", "g">>>>,
      \* September, Sep, septiembre, sep, September, Sep
      <<<<"S", "e", "p", "t", "e", "m", "b", "e", "r">>,
        <<"S", "e", "p">>,
        <<"s", "e", "p", "t", "i", "e", "m", "b", "r", "e">>,
        <<"s", "e", "p">>,
        <<"S", "e", "p", "t", "e", "m", "b", "e", "r">>,
        <<"S", "e", "p">>>>,
      \* October, Oct, octubre, oct, Oktober, Okt
      <<<<"O", "c", "t", "o", "b", "e", "r">>,
        <<"O", "c", "t">>,
        <<"o", "c", "t", "u", "b", "r", "e">>,
        <<"o", "c", "t">>,
        <<"O", "k", "t", "o", "b", "e", "r">>,
        <<"O", "k", "t">>>>,
      \* November, Nov, noviembre, nov, November, Nov
      <<<<"N", "o", "v", "e", "m", "b", "e", "r">>,
        <<"N", "o", "v">>,
        <<"n", "o", "v", "i", "e", "m", "b", "r", "e">>,
        <<"n", "o", "v">>,
        <<"N", "o", "v", "e", "m", "b", "e", "r">>,
        <<"N", "o", "v">>>>,
      \* December, Dec, diciembre, dic, Dezember, Dez
      <<<<"D", "e", "c", "e", "m", "b", "e", "r">>,
        <<"D", "e", "c">>,
        <<"d", "i", "c", "i", "e", "m", "b", "r", "e">>,
        <<"d", "i", "c">>,
        <<"D", "e", "z", "e", "m", "b", "e", "r">>,
        <<"D", "e", "z">>>>
    >>

\* _SEASONS: spring, summer, autumn, fall, winter
SEASONS ==
    {<<<<"s", "p", "r", "i", "n", "g">>, 3>>, <<<<"s", "u", "m", "m", "e", "r">>, 6>>,
     <<<<"a", "u", "t", "u", "m", "n">>, 9>>, <<<<"f", "a", "l", "l">>, 9>>,
     <<<<"w", "i", "n", "t", "e", "r">>, 12>>}

\* ISSUE_NOUNS: issue, iss, no, nr, number, #
ISSUE_NOUNS ==
    {<<"i", "s", "s", "u", "e">>, <<"i", "s", "s">>, <<"n", "o">>, <<"n", "r">>,
     <<"n", "u", "m", "b", "e", "r">>, <<"#">>}

\* VOLUME_NOUNS: vol, volume, vol.
VOLUME_NOUNS == {<<"v", "o", "l">>, <<"v", "o", "l", "u", "m", "e">>, <<"v", "o", "l", ".">>}

\* NFD decomposition without the combining marks, one character
UnaccentedChar(c) ==
    CASE c = "ä" -> "a"
      [] c = "Ä" -> "A"
      [] OTHER -> c

\* unaccented(text)
Unaccented(cs) == [i \in 1..Len(cs) |-> UnaccentedChar(cs[i])]

RECURSIVE StripDotsLeft(_)
StripDotsLeft(cs) == IF cs # <<>> /\ Head(cs) = "." THEN StripDotsLeft(Tail(cs)) ELSE cs

RECURSIVE StripDotsRight(_)
StripDotsRight(cs) ==
    IF cs # <<>> /\ cs[Len(cs)] = "." THEN StripDotsRight(SubSeq(cs, 1, Len(cs) - 1)) ELSE cs

\* value.strip('.')
StripDots(cs) == StripDotsRight(StripDotsLeft(cs))

\* _build_clean_table, the rows of the months: unaccented(item).lower().strip('.')
CLEAN_MONTH_TABLE ==
    [f \in 1..12 |-> [k \in 1..6 |-> StripDots(LowerSeq(Unaccented(BASE_MONTH_TABLE[f][k])))]]

\* MONTH_TABLE[0][f] as the set of its names
MONTH_NAMES == [f \in 1..12 |-> {BASE_MONTH_TABLE[f][k] : k \in 1..6}]

\* name.lower() of the names of MONTH_TABLE[0][f]
LOWER_NAMES == [f \in 1..12 |-> {LowerSeq(name) : name \in MONTH_NAMES[f]}]

\* MONTH_TABLE[1][f] as the set of its names
CLEAN_NAMES == [f \in 1..12 |-> {CLEAN_MONTH_TABLE[f][k] : k \in 1..6}]

IsDigitChar(c) == c \in {"0", "1", "2", "3", "4", "5", "6", "7", "8", "9"}

\* str.isdigit()
IsDigit(cs) == cs # <<>> /\ \A i \in 1..Len(cs) : IsDigitChar(cs[i])

DigitValue(c) == (CHOOSE d \in 1..10 : Digits[d] = c) - 1

RECURSIVE IntOf(_)
\* int(value) of a string of digits (of at most nine digits here)
IntOf(cs) == IF cs = <<>> THEN 0 ELSE 10 * IntOf(SubSeq(cs, 1, Len(cs) - 1)) + DigitValue(cs[Len(cs)])

\* check_int(val, default): the words of a title hold no sign, blank or
\* underscore, so int(val) succeeds exactly on the strings of digits
CheckInt(val, default) == IF IsDigit(val) THEN IntOf(val) ELSE default

\* check_year(val), utc_year being datetime.datetime.utcnow().year
CheckYear(val, utc_year) ==
    IF IsDigit(val) /\ 1900 <= IntOf(val) /\ IntOf(val) <= utc_year + 1 THEN IntOf(val) ELSE 0

\* re.sub(r"\D", "", value)
OnlyDigits(cs) == SelectSeq(cs, IsDigitChar)

StartsWith(cs, pre) == Len(pre) <= Len(cs) /\ \A i \in 1..Len(pre) : cs[i] = pre[i]

EndsWith(cs, suf) ==
    Len(suf) <= Len(cs) /\ \A i \in 1..Len(suf) : cs[Len(cs) - Len(suf) + i] = suf[i]

Least(S) == CHOOSE x \in S : \A y \in S : x <= y

\* month2num(month): the first row holding the word, else its season, else 0
Month2Num(month) ==
    LET lowered == LowerSeq(month)
        clean == LowerSeq(Unaccented(month))
        rows == {f \in 1..12 : lowered \in LOWER_NAMES[f] \/ clean \in CLEAN_NAMES[f]}
        seasons == {s \in SEASONS : s[1] = clean}
    IN IF rows # {} THEN Least(rows)
       ELSE IF seasons # {} THEN (CHOOSE s \in seasons : TRUE)[2]
       ELSE 0

\* two_months(word): the first month the word starts with and, when there is
\* one, the first month it ends with; <<0, 0>> when the two are equal
TwoMonths(word) ==
    LET cleanword == LowerSeq(Unaccented(word))
        starts == {f \in 1..12 :
                      \/ \E month \in MONTH_NAMES[f] : StartsWith(word, month)
                      \/ \E month \in CLEAN_NAMES[f] : StartsWith(cleanword, month)}
        ends == {f \in 1..12 :
                    \/ \E month \in MONTH_NAMES[f] : EndsWith(word, month)
                    \/ \E month \in CLEAN_NAMES[f] : EndsWith(cleanword, month)}
        a == IF starts # {} THEN Least(starts) ELSE 0
        b == IF a # 0 /\ ends # {} THEN Least(ends) ELSE 0
    IN IF a = b THEN <<0, 0>> ELSE <<a, b>>

\* one character of replace_all(title_or_issue, dic)
DicChar(c) ==
    CASE c \in {".", "-", "/", "+", "_", "[", "]"} -> <<" ">>
      [] c \in {"(", ")"} -> <<>>
      [] c = "#" -> <<"#", " ">>
      [] OTHER -> <<c>>

RECURSIVE ReplaceAll(_)
\* replace_all(title_or_issue, dic)
ReplaceAll(cs) == IF cs = <<>> THEN <<>> ELSE DicChar(Head(cs)) \o ReplaceAll(Tail(cs))

RECURSIVE SplitWords(_, _, _)
\* one pass over the characters: cur is the word being read, acc the words read
SplitWords(cs, cur, acc) ==
    LET closed == IF cur = <<>> THEN acc ELSE Append(acc, cur)
    IN IF cs = <<>> THEN closed
       ELSE IF Head(cs) = " " THEN SplitWords(Tail(cs), <<>>, closed)
       ELSE SplitWords(Tail(cs), Append(cur, Head(cs)), acc)

\* value.split(): the words of a string, in order
Split(cs) == SplitWords(cs, <<>>, <<>>)

\* list(dict.fromkeys(months)): the first occurrence of each month, in order
Deduplicated(ms) ==
    SelectSeq([i \in 1..Len(ms) |-> IF \E j \in 1..(i - 1) : ms[j] = ms[i] THEN -1 ELSE ms[i]],
              LAMBDA m : m # -1)

\* the local variables of get_dateparts before its first loop
NoDateparts ==
    [year |-> 0, months |-> <<>>, day |-> 0, issue |-> 0, volume |-> 0, month |-> 0,
     mname |-> <<>>, inoun |-> <<>>, vnoun |-> <<>>, style |-> 0]

\* words[pos].lower().strip('.') in nouns
IsNoun(word, nouns) == StripDots(LowerSeq(word)) \in nouns

\* the months of two_months(word), when it found any, after those read so far
WithTwoMonths(months, two) == IF two[1] # 0 THEN months \o two ELSE months

\* get_dateparts, first loop, the start of one round: the first valid year and
\* the months of the word, month_val being month2num(word)
SeenWord(d, word, month_val, utc_year) ==
    [d EXCEPT !.year = IF d.year = 0 THEN CheckYear(word, utc_year) ELSE d.year,
              !.months = IF month_val # 0 THEN Append(d.months, month_val)
                         ELSE WithTwoMonths(d.months, TwoMonths(word)),
              !.mname = IF month_val # 0 THEN word ELSE d.mname]

RECURSIVE FirstPass(_, _, _, _)
\* get_dateparts, first loop, the end of one round: the number after an issue
\* or volume noun, which the loop then steps over
AfterWord(words, pos, seen, utc_year) ==
    IF IsNoun(words[pos], ISSUE_NOUNS) /\ pos < Len(words)
    THEN FirstPass(words, pos + 2,
                   [seen EXCEPT !.inoun = words[pos], !.issue = CheckInt(words[pos + 1], 0)],
                   utc_year)
    ELSE IF ~IsNoun(words[pos], ISSUE_NOUNS) /\ IsNoun(words[pos], VOLUME_NOUNS)
            /\ pos < Len(words)
    THEN FirstPass(words, pos + 2,
                   [seen EXCEPT !.vnoun = words[pos], !.volume = CheckInt(words[pos + 1], 0)],
                   utc_year)
    ELSE FirstPass(words, pos + 1, seen, utc_year)

\* get_dateparts, first loop: the first valid year, every month name, and the
\* numbers after the issue and volume nouns
FirstPass(words, pos, d, utc_year) ==
    IF pos > Len(words) THEN d
    ELSE AfterWord(words, pos, SeenWord(d, words[pos], Month2Num(words[pos]), utc_year),
                   utc_year)

\* get_dateparts between its first two loops: months without repetitions,
\* style 1 for several months, style 8 / 9 for a volume with an issue
AfterFirstPass(d) ==
    LET Styled(months) ==
            [d EXCEPT !.months = months,
                      !.month = IF months # <<>> THEN months[1] ELSE 0,
                      !.style = IF d.volume # 0 /\ d.issue # 0 THEN (IF d.year # 0 THEN 8 ELSE 9)
                                ELSE IF Len(months) > 1 THEN 1
                                ELSE 0]
    IN Styled(Deduplicated(d.months))

\* get_dateparts, second loop, one word made of digits
NumericWord(data, d, utc_year) ==
    IF Len(data) = 4 /\ CheckYear(data, utc_year) # 0 THEN [d EXCEPT !.year = IntOf(data)]
    ELSE IF Len(data) = 6
    THEN IF CheckYear(SubSeq(data, 1, 4), utc_year) # 0
         THEN [d EXCEPT !.year = IntOf(SubSeq(data, 1, 4)), !.issue = IntOf(SubSeq(data, 5, 6)),
                        !.style = 13]
         ELSE IF CheckYear(SubSeq(data, 3, 6), utc_year) # 0
         THEN [d EXCEPT !.year = IntOf(SubSeq(data, 3, 6)), !.issue = IntOf(SubSeq(data, 1, 2)),
                        !.style = 13]
         ELSE d
    ELSE IF Len(data) = 8
    THEN IF CheckYear(SubSeq(data, 1, 4), utc_year) # 0
         THEN [d EXCEPT !.year = IntOf(SubSeq(data, 1, 4)), !.issue = IntOf(SubSeq(data, 5, 8)),
                        !.style = 16]
         ELSE [d EXCEPT !.volume = IntOf(SubSeq(data, 1, 4)), !.issue = IntOf(SubSeq(data, 5, 8)),
                        !.style = 17]
    ELSE IF Len(data) = 12
    THEN [d EXCEPT !.year = IntOf(SubSeq(data, 1, 4)), !.volume = IntOf(SubSeq(data, 5, 8)),
                   !.issue = IntOf(SubSeq(data, 9, 12)), !.style = 18]
    ELSE IF Len(data) > 2 THEN [d EXCEPT !.issue = IntOf(data)]
    ELSE d

RECURSIVE SecondPass(_, _, _, _)
\* get_dateparts, second loop: the numeric words, by their length
SecondPass(words, pos, d, utc_year) ==
    IF pos > Len(words) THEN d
    ELSE SecondPass(words, pos + 1,
                    IF IsDigit(words[pos]) THEN NumericWord(words[pos], d, utc_year) ELSE d, utc_year)

IsLeap(y) == y % 4 = 0 /\ (y % 100 # 0 \/ y % 400 = 0)

DaysIn(y, m) ==
    IF m = 2 THEN (IF IsLeap(y) THEN 29 ELSE 28)
    ELSE IF m \in {4, 6, 9, 11} THEN 30
    ELSE 31

\* datetime.date(year, month, day) does not raise ValueError
ValidDate(y, m, day) == 1 <= y /\ y <= 9999 /\ 1 <= m /\ m <= 12 /\ 1 <= day /\ day <= DaysIn(y, m)

RECURSIVE MonthThenYear(_, _, _, _)
\* get_dateparts, styles 2, 3, 4 and 10: a month name just before a valid
\* year, with the word before the month as day, issue or volume (datetype is
\* '' in every call, parse_issue being the only caller)
MonthThenYear(words, pos, d, utc_year) ==
    IF pos > Len(words) THEN d
    ELSE IF CheckYear(words[pos], utc_year) # 0 /\ pos > 1 /\ Month2Num(words[pos - 1]) # 0
    THEN IF pos > 2
         THEN LET day == CheckInt(OnlyDigits(words[pos - 2]), 0)
              IN IF pos > 3 /\ IsNoun(words[pos - 3], ISSUE_NOUNS)
                 THEN [d EXCEPT !.issue = day, !.inoun = words[pos - 3], !.style = 10]
                 ELSE IF pos > 3 /\ IsNoun(words[pos - 3], VOLUME_NOUNS)
                 THEN [d EXCEPT !.volume = day, !.vnoun = words[pos - 3], !.style = 10]
                 ELSE IF day > 31 THEN [d EXCEPT !.issue = day, !.style = 2]
                 ELSE IF day # 0 THEN [d EXCEPT !.style = 3, !.day = day]
                 ELSE [d EXCEPT !.style = 4, !.day = 1]
         ELSE [d EXCEPT !.style = 4, !.day = 1]
    ELSE MonthThenYear(words, pos + 1, d, utc_year)

RECURSIVE MonthDayYear(_, _, _, _)
\* get_dateparts, style 5: month name, day, valid year
MonthDayYear(words, pos, d, utc_year) ==
    IF pos > Len(words) THEN d
    ELSE LET year == CheckYear(words[pos], utc_year)
             month == IF pos > 2 THEN Month2Num(words[pos - 2]) ELSE 0
             day == IF pos > 2 THEN CheckInt(OnlyDigits(words[pos - 1]), 0) ELSE 0
         IN IF year # 0 /\ pos > 2 /\ month # 0 /\ ValidDate(year, month, day)
            THEN [d EXCEPT !.year = year, !.month = month,
                           !.months = IF d.months = <<>> THEN <<month>> ELSE d.months,
                           !.day = day, !.style = 5]
            ELSE MonthDayYear(words, pos + 1, d, utc_year)

RECURSIVE YearThenMonth(_, _, _, _)
\* get_dateparts, styles 6 and 7: a valid year, then a month name or number,
\* then perhaps a day; the loop has no break, so the last such year decides,
\* and an impossible date puts the style back to 0
YearThenMonth(words, pos, d, utc_year) ==
    IF pos > Len(words) THEN d
    ELSE LET year == CheckYear(words[pos], utc_year)
             named == IF pos < Len(words) THEN Month2Num(words[pos + 1]) ELSE 0
             numbered == IF pos < Len(words) THEN CheckInt(words[pos + 1], 0) ELSE 0
             month == IF named # 0 THEN named ELSE IF numbered > 12 THEN 0 ELSE numbered
             given == IF pos + 2 <= Len(words) THEN CheckInt(OnlyDigits(words[pos + 2]), 0) ELSE 0
             day == IF given # 0 THEN given ELSE 1
             style == IF given # 0 THEN 6 ELSE 7
         IN YearThenMonth(words, pos + 1,
                IF year # 0 /\ pos < Len(words) /\ month # 0
                THEN IF ValidDate(year, month, day)
                     THEN [d EXCEPT !.year = year, !.month = month,
                                    !.months = IF d.months = <<>> THEN <<month>> ELSE d.months,
                                    !.day = day, !.style = style]
                     ELSE [d EXCEPT !.style = 0]
                ELSE d, utc_year)

\* re.split(r'(\d+)', word)[0]: the characters before the first digit
BeforeDigits(cs) ==
    IF \E i \in 1..Len(cs) : IsDigitChar(cs[i])
    THEN SubSeq(cs, 1, Least({i \in 1..Len(cs) : IsDigitChar(cs[i])}) - 1)
    ELSE cs

\* re.split(r'(\d+)', word)[1]: the first run of digits, <<>> when the split
\* has one part only
FirstDigits(cs) ==
    IF \E i \in 1..Len(cs) : IsDigitChar(cs[i])
    THEN LET first == Least({i \in 1..Len(cs) : IsDigitChar(cs[i])})
             last == Least({i \in first..Len(cs) : i = Len(cs) \/ ~IsDigitChar(cs[i + 1])})
         IN SubSeq(cs, first, last)
    ELSE <<>>

RECURSIVE NounThenNumber(_, _, _)
\* get_dateparts, styles 10 and 11: an issue or volume noun with a number
\* attached to it or after it.  The dotted form (`24.05`) of the next word
\* cannot occur: replace_all has turned every '.' into a blank.
NounThenNumber(words, pos, d) ==
    IF pos > Len(words) THEN d
    ELSE LET lowered == LowerSeq(words[pos])
             attached == CheckInt(FirstDigits(lowered), 0)
             next == IF pos < Len(words) THEN CheckInt(words[pos + 1], 0) ELSE 0
             styled == IF d.year # 0 THEN 10 ELSE 11
         IN IF StripDots(BeforeDigits(lowered)) \in (ISSUE_NOUNS \cup VOLUME_NOUNS)
            THEN IF attached # 0 THEN [d EXCEPT !.issue = attached, !.style = styled]
                 ELSE IF next # 0 THEN [d EXCEPT !.issue = next, !.style = styled]
                 ELSE NounThenNumber(words, pos + 1, d)
            ELSE NounThenNumber(words, pos + 1, d)

RECURSIVE NumbersAroundYear(_, _, _, _)
\* get_dateparts, styles 3 and 12: numbers next to the first valid year that
\* is not the first word
NumbersAroundYear(words, pos, d, utc_year) ==
    IF pos > Len(words) THEN d
    ELSE IF CheckYear(words[pos], utc_year) # 0 /\ IsDigit(words[pos - 1])
    THEN IF pos > 2 /\ IsDigit(words[pos - 2])
         THEN LET m0 == IntOf(words[pos - 1])
                  d0 == IntOf(words[pos - 2])
                  m == IF m0 = 1 /\ d0 < 13 THEN d0 ELSE m0
                  dd == IF m0 = 1 /\ d0 < 13 THEN 1 ELSE d0
              IN IF m < 13 THEN [d EXCEPT !.months = <<m>>, !.day = dd, !.style = 3]
                 ELSE IF dd < 13 THEN [d EXCEPT !.months = <<dd>>, !.day = m, !.style = 3]
                 ELSE [d EXCEPT !.issue = IntOf(words[pos - 1]), !.style = 12]
         ELSE [d EXCEPT !.issue = IntOf(words[pos - 1]), !.style = 12]
    ELSE IF CheckYear(words[pos], utc_year) # 0 /\ pos < Len(words) /\ IsDigit(words[pos + 1])
    THEN [d EXCEPT !.issue = IntOf(words[pos + 1]), !.style = 12]
    ELSE NumbersAroundYear(words, pos + 1, d, utc_year)

\* get_dateparts: a search is made only while no style has been found
Unstyled(d, found) == IF d.style = 0 THEN found ELSE d

\* get_dateparts, the searches made while no style has been found, the last
\* of them only when a year is known
StyleSearch(words, d, utc_year) ==
    LET First(d0) == Unstyled(d0, MonthThenYear(words, 1, d0, utc_year))
        Second(d1) == Unstyled(d1, MonthDayYear(words, 1, d1, utc_year))
        Third(d2) == Unstyled(d2, YearThenMonth(words, 1, d2, utc_year))
        Fourth(d3) == Unstyled(d3, NounThenNumber(words, 1, d3))
        Fifth(d4) == IF d4.style = 0 /\ d4.year # 0
                     THEN NumbersAroundYear(words, 2, d4, utc_year) ELSE d4
    IN Fifth(Fourth(Third(Second(First(d)))))

\* str(n).zfill(w) and f"{n:0{w}d}" of a natural number
Padded(n, w) == ZeroPad(DigitsOf(n), w)

\* get_dateparts, the end: dbdate, by an issue number after a noun or else
\* by the style
Dbdate(d) ==
    IF d.issue # 0 /\ d.inoun # <<>>
    THEN (IF d.year # 0 THEN DigitsOf(d.year) ELSE <<>>) \o Padded(d.issue, 4)
    ELSE CASE d.style = 14 -> Padded(d.issue, 4)
           [] d.style = 15 -> DigitsOf(d.year)
           [] d.style = 16 -> DigitsOf(d.year) \o Padded(d.issue, 4)
           [] d.style = 17 -> Padded(d.volume, 4) \o Padded(d.issue, 4)
           [] d.style = 18 -> DigitsOf(d.year) \o Padded(d.volume, 4) \o Padded(d.issue, 4)
           [] OTHER -> DigitsOf(d.year) \o <<"-">> \o Padded(d.month, 2) \o <<"-">>
                       \o Padded(d.day, 2)

\* get_dateparts, the end: month, the styles 15 and 14, day 1 where dbdate
\* is not an issue number after a noun, and dbdate
Finished(d0) ==
    LET WithMonth(d) == [d EXCEPT !.month = IF d.months # <<>> THEN d.months[1] ELSE 0]
        WithStyle(d) == [d EXCEPT !.style = IF d.style # 0 THEN d.style
                                           ELSE IF d.year # 0 THEN 15
                                           ELSE IF d.issue # 0 THEN 14
                                           ELSE 0]
        WithDay(d) == IF (d.issue # 0 /\ d.inoun # <<>>) \/ d.day # 0 THEN d
                      ELSE [d EXCEPT !.day = 1]
        WithDbdate(d) ==
            [year |-> d.year, months |-> d.months, day |-> d.day, issue |-> d.issue,
             volume |-> d.volume, month |-> d.month, mname |-> d.mname, inoun |-> d.inoun,
             vnoun |-> d.vnoun, style |-> d.style, dbdate |-> Dbdate(d)]
    IN WithDbdate(WithDay(WithStyle(WithMonth(d0))))

\* get_dateparts(title_or_issue, datetype='', language): the dateparts, whose
\* style is 0 where the code returns None
GetDateparts(title_or_issue, utc_year) ==
    LET Of(words) ==
            Finished(StyleSearch(words,
                SecondPass(words, 1, AfterFirstPass(FirstPass(words, 1, NoDateparts, utc_year)),
                           utc_year),
                utc_year))
    IN Of(Split(ReplaceAll(title_or_issue)))

\* the characters _strip_magazine_title skips after the magazine's name (the
\* two dashes beyond Latin-1 are written by their names)
TITLE_SEPARATORS == {" ", ".", "-", "_", ":", "/", "\\", "|", "EN DASH", "EM DASH"}

\* ''.join(ch.lower() for ch in magazine_title if ch.isalnum())
TitleTarget(magazine_title) == LowerSeq(SelectSeq(magazine_title, IsAlnum))

RECURSIVE AfterTarget(_, _, _)
\* _strip_magazine_title, first loop: the position after the characters of
\* the title whose letters and digits spell the target, 0 when they do not
AfterTarget(title, ti, target) ==
    IF target = <<>> THEN ti
    ELSE IF ti > Len(title) THEN 0
    ELSE IF ~IsAlnum(title[ti]) THEN AfterTarget(title, ti + 1, target)
    ELSE IF LowerChar(title[ti]) # Head(target) THEN 0
    ELSE AfterTarget(title, ti + 1, Tail(target))

RECURSIVE SkipSeparators(_, _)
SkipSeparators(title, ti) ==
    IF ti <= Len(title) /\ title[ti] \in TITLE_SEPARATORS THEN SkipSeparators(title, ti + 1) ELSE ti

\* _strip_magazine_title(title, magazine_title), magazine_title being None
\* or a string
StripMagazineTitle(title, magazine_title) ==
    IF magazine_title = None \/ TitleTarget(Chars(magazine_title)) = <<>> THEN title
    ELSE LET ti == AfterTarget(title, 1, TitleTarget(Chars(magazine_title)))
         IN IF ti = 0 THEN title ELSE SubSeq(title, SkipSeparators(title, ti), Len(title))

\* language.split('_')[0].lower()
LangCode(language) ==
    LowerSeq(IF \E i \in 1..Len(language) : language[i] = "_"
             THEN SubSeq(language, 1, Least({i \in 1..Len(language) : language[i] = "_"}) - 1)
             ELSE language)

\* _month_name without the language: the English name
MonthName_English(month, language) ==
    IF ~(0 < month /\ month < 13) THEN Chars("Month ") \o DigitsOf(month)
    ELSE BASE_MONTH_TABLE[month][1]

\* _month_name(month, language): the name in the first column of the
\* language, in the first column of all when the table has not the language
MonthName(month, language) ==
    IF ~(0 < month /\ month < 13) THEN Chars("Month ") \o DigitsOf(month)
    ELSE LET indices == {k \in 1..6 : StartsWith(LowerSeq(MONTH_LOCALES[k]), LangCode(language))}
         IN BASE_MONTH_TABLE[month][IF indices = {} THEN 1 ELSE Least(indices)]

RECURSIVE JoinNames(_, _)
\* '/'.join(_month_name(m, language) for m in months)
JoinNames(months, language) ==
    IF Len(months) = 1 THEN MonthName(months[1], language)
    ELSE MonthName(months[1], language) \o <<"/">> \o JoinNames(Tail(months), language)

\* _format_label(dateparts, language)
FormatLabel(d, language) ==
    IF d.month # 0 /\ d.year # 0
    THEN (IF Len(d.months) > 1 THEN JoinNames(d.months, language) ELSE MonthName(d.month, language))
         \o <<" ">> \o DigitsOf(d.year)
    ELSE LET volume == IF d.volume # 0 THEN <<Chars("Vol ") \o DigitsOf(d.volume)>> ELSE <<>>
             issue == IF d.issue # 0 THEN <<Chars("Issue ") \o DigitsOf(d.issue)>> ELSE <<>>
             year == IF d.year # 0 THEN <<DigitsOf(d.year)>> ELSE <<>>
             components == volume \o issue \o year
         IN IF components = <<>> THEN Chars("Issue")
            ELSE IF Len(components) = 1 THEN components[1]
            ELSE IF Len(components) = 2 THEN components[1] \o <<" ">> \o components[2]
            ELSE components[1] \o <<" ">> \o components[2] \o <<" ">> \o components[3]

\* the None that parse_issue returns
NoMetadata == [found |-> FALSE]

\* parse_issue(title, magazine_title, language)
ParseIssue(title, magazine_title, language, utc_year) ==
    LET Metadata(dateparts) ==
            IF dateparts.style = 0 THEN NoMetadata
            ELSE [found |-> TRUE,
                  issue_code |-> dateparts.dbdate,
                  label |-> FormatLabel(dateparts, language),
                  year |-> dateparts.year,
                  month |-> dateparts.month,
                  day |-> dateparts.day,
                  issue_number |-> IF dateparts.issue # 0 THEN dateparts.issue ELSE NoInt,
                  volume |-> dateparts.volume]
    IN Metadata(GetDateparts(StripMagazineTitle(title, magazine_title), utc_year))

(***************************************************************************)
(* Auto downloader: pure helpers (auto_downloader.py)                      *)
(***************************************************************************)
ACTIVE_JOB_STATUSES == {"pending", "queued", "downloading", "processing", "completed", "moved"}

STOP_WORDS ==
    {Chars("mag"), Chars("magazine"), Chars("ebook"), Chars("digital"), Chars("issue"),
     Chars("revista")}

ExtractTitleTokens(title) ==
    {tok \in NormalizeTextTokens(title) : Len(tok) >= 3 /\ tok \notin STOP_WORDS}

\* the identity of a scan result or job that has none
NoKey == <<>>

Sep == <<":", ":">>

\* the parts list of _issue_identifier joined by "-"
IdentifierParts(issue_year, issue_month, issue_number) ==
    LET y == IF issue_year # NoInt THEN <<<<"Y">> \o ZeroPad(DigitsOf(issue_year), 4)>> ELSE <<>>
        m == IF issue_month # NoInt THEN <<<<"M">> \o ZeroPad(DigitsOf(issue_month), 2)>> ELSE <<>>
        n == IF issue_number # NoInt THEN <<<<"N">> \o ZeroPad(DigitsOf(issue_number), 4)>> ELSE <<>>
        parts == y \o m \o n
    IN IF Len(parts) = 0 THEN <<>>
       ELSE IF Len(parts) = 1 THEN parts[1]
       ELSE IF Len(parts) = 2 THEN parts[1] \o <<"-">> \o parts[2]
       ELSE parts[1] \o <<"-">> \o parts[2] \o <<"-">> \o parts[3]

\* the spelling of an Optional[str], empty for None as for ""
Spelling(s) == IF Truthy(s) THEN Chars(s) ELSE <<>>

\* _issue_identifier, were the title kept as it was received
IssueIdentifierOn_RawTitle(magazine_title, issue_code, issue_year, issue_month, issue_number, fallback_title) ==
    IF magazine_title = <<>> THEN NoKey
    ELSE LET prefix == LowerSeq(StripRight(StripLeft(magazine_title)))
             parts == IdentifierParts(issue_year, issue_month, issue_number)
         IN IF issue_code # <<>> THEN prefix \o Sep \o Chars("code") \o Sep \o issue_code
            ELSE IF parts # <<>> THEN prefix \o Sep \o parts
            ELSE IF fallback_title # <<>>
                 THEN prefix \o Sep \o Chars("title") \o Sep \o fallback_title
            ELSE NoKey

\* _issue_identifier on the spellings of its strings: the spelling of the
\* key, NoKey for None
IssueIdentifierOn(magazine_title, issue_code, issue_year, issue_month, issue_number, fallback_title) ==
    IF magazine_title = <<>> THEN NoKey
    ELSE LET prefix == LowerSeq(StripRight(StripLeft(magazine_title)))
             parts == IdentifierParts(issue_year, issue_month, issue_number)
         IN IF issue_code # <<>> THEN prefix \o Sep \o Chars("code") \o Sep \o issue_code
            ELSE IF parts # <<>> THEN prefix \o Sep \o parts
            ELSE IF fallback_title # <<>>
                 THEN prefix \o Sep \o Chars("title") \o Sep
                        \o LowerSeq(StripRight(StripLeft(fallback_title)))
            ELSE NoKey

\* _issue_identifier of the strings of a row or a search result
IssueIdentifier(magazine_title, issue_code, issue_year, issue_month, issue_number, fallback_title) ==
    IssueIdentifierOn(Spelling(magazine_title), Spelling(issue_code), issue_year, issue_month,
                      issue_number, Spelling(fallback_title))

JobKey(job) ==
    IssueIdentifier(job.magazine_title, job.issue_code, job.issue_year, job.issue_month,
                    job.issue_number, job.title)

ResultKey(r) ==
    IssueIdentifier(r.magazine_title, r.issue_code, r.issue_year, r.issue_month,
                    r.issue_number, r.title)

\* the rows _build_job_index reads: magazine_title IS NOT NULL and a key
IndexedJobs(js) == {i \in 1..Len(js) : js[i].magazine_title # None /\ JobKey(js[i]) # NoKey}

\* _build_job_index: key -> IssueState(active, links)
BuildJobIndex(js) ==
    [k \in {JobKey(js[i]) : i \in IndexedJobs(js)} |->
        [active |-> \E i \in IndexedJobs(js) :
                        JobKey(js[i]) = k /\ Lower(IF js[i].status = None THEN "" ELSE js[i].status)
                                                \in ACTIVE_JOB_STATUSES,
         links |-> {js[i].link : i \in {x \in IndexedJobs(js) :
                                            JobKey(js[x]) = k /\ Truthy(js[x].link)}}]]

\* _mark_issue_active
MarkIssueActive(index, key, link) ==
    LET old == IF key \in DOMAIN index THEN index[key] ELSE [active |-> FALSE, links |-> {}]
        new == [active |-> TRUE, links |-> IF Truthy(link) THEN old.links \cup {link} ELSE old.links]
    IN [k \in DOMAIN index \cup {key} |-> IF k = key THEN new ELSE index[k]]

\* a guard in which a later year does not return early: the issue number is
\* compared in every year from min_year on
PassesGuard_NoYearShortcut(result, guard) ==
    IF guard.min_year = NoInt /\ guard.min_issue = NoInt /\ guard.tokens = {} THEN TRUE
    ELSE LET threshold ==
                 IF guard.min_year # NoInt
                 THEN IF result.issue_year = NoInt THEN "reject"
                      ELSE IF result.issue_year < guard.min_year THEN "reject"
                      ELSE IF guard.min_issue = NoInt THEN "accept"
                      ELSE IF result.issue_number = NoInt THEN "reject"
                      ELSE IF result.issue_number < guard.min_issue THEN "reject"
                      ELSE "tokens"
                 ELSE IF guard.min_issue # NoInt
                      THEN IF result.issue_number = NoInt \/ result.issue_number < guard.min_issue
                           THEN "reject" ELSE "tokens"
                      ELSE "tokens"
             title_tokens == NormalizeTextTokens(IF result.title = None THEN "" ELSE result.title)
         IN IF threshold = "reject" THEN FALSE
            ELSE IF threshold = "accept" THEN TRUE
            ELSE IF guard.tokens # {}
                 THEN title_tokens # {} /\ \A tok \in guard.tokens : tok \in title_tokens
                 ELSE TRUE

\* _passes_guard
PassesGuard(result, guard) ==
    IF guard.min_year = NoInt /\ guard.min_issue = NoInt /\ guard.tokens = {} THEN TRUE
    ELSE LET threshold ==
                 IF guard.min_year # NoInt
                 THEN IF result.issue_year = NoInt THEN "reject"
                      ELSE IF result.issue_year < guard.min_year THEN "reject"
                      ELSE IF result.issue_year > guard.min_year THEN "accept"
                      ELSE IF guard.min_issue = NoInt THEN "accept"
                      ELSE IF result.issue_number = NoInt THEN "reject"
                      ELSE IF result.issue_number < guard.min_issue THEN "reject"
                      ELSE "tokens"
                 ELSE IF guard.min_issue # NoInt
                      THEN IF result.issue_number = NoInt \/ result.issue_number < guard.min_issue
                           THEN "reject" ELSE "tokens"
                      ELSE "tokens"
             title_tokens == NormalizeTextTokens(IF result.title = None THEN "" ELSE result.title)
         IN IF threshold = "reject" THEN FALSE
            ELSE IF threshold = "accept" THEN TRUE
            ELSE IF guard.tokens # {}
                 THEN title_tokens # {} /\ \A tok \in guard.tokens : tok \in title_tokens
                 ELSE TRUE

\* _load_guards: magazine key -> MagazineGuard, from the rows of the Magazine table
LoadGuards(mags) ==
    [k \in {Lower(Strip(m.title)) : m \in {x \in mags : Truthy(x.title)}} |->
        LET m == CHOOSE x \in mags : Truthy(x.title) /\ Lower(Strip(x.title)) = k
        IN [min_year |-> m.auto_download_since_year,
            min_issue |-> m.auto_download_since_issue,
            tokens |-> ExtractTitleTokens(m.title)]]

\* a selection that skips known links only, not active buckets
Selects_IgnoresActive(result, job_index, guards) ==
    LET magazine == Strip(IF result.magazine_title = None THEN "" ELSE result.magazine_title)
        magazine_key == Lower(magazine)
        issue_key == ResultKey(result)
    IN /\ magazine # ""
       /\ (magazine_key \in DOMAIN guards => PassesGuard(result, guards[magazine_key]))
       /\ issue_key # NoKey
       /\ (issue_key \in DOMAIN job_index => result.link \notin job_index[issue_key].links)

\* the body of the selection loop for one result: TRUE when it is appended
Selects(result, job_index, guards) ==
    LET magazine == Strip(IF result.magazine_title = None THEN "" ELSE result.magazine_title)
        magazine_key == Lower(magazine)
        issue_key == ResultKey(result)
    IN /\ magazine # ""
       /\ (magazine_key \in DOMAIN guards => PassesGuard(result, guards[magazine_key]))
       /\ issue_key # NoKey
       /\ (issue_key \in DOMAIN job_index =>
              /\ ~job_index[issue_key].active
              /\ result.link \notin job_index[issue_key].links)

RECURSIVE SelectLoop(_, _, _, _, _)
SelectLoop(results, job_index, guards, max_per_scan, selections) ==
    IF results = <<>> \/ Len(selections) >= max_per_scan THEN selections
    ELSE SelectLoop(Tail(results), job_index, guards, max_per_scan,
                    IF Selects(Head(results), job_index, guards)
                    THEN Append(selections, [issue_key |-> ResultKey(Head(results)),
                                             result |-> Head(results)])
                    ELSE selections)

Max(a, b) == IF a >= b THEN a ELSE b

\* a selection that goes through all results
SelectCandidates_Uncapped(results, job_index, guards, max_results_per_scan) ==
    SelectLoop(results, job_index, guards, Len(results), <<>>)

\* a selection that cuts the result list to the cap before it filters
SelectCandidates_CapsBeforeFilter(results, job_index, guards, max_results_per_scan) ==
    SelectLoop(SubSeq(results, 1, IF Len(results) < Max(1, max_results_per_scan)
                                  THEN Len(results) ELSE Max(1, max_results_per_scan)),
               job_index, guards, Max(1, max_results_per_scan), <<>>)

\* _select_candidates
SelectCandidates(results, job_index, guards, max_results_per_scan) ==
    SelectLoop(results, job_index, guards, Max(1, max_results_per_scan), <<>>)

(***************************************************************************)
(* Search results (services.py search_magazines)                           *)
(***************************************************************************)
\* _safe_int of an Optional[int]
SafeInt(v) == IF v = NoInt THEN 0 ELSE v

\* the fields of the issue and the published time, whatever is set
IssueTuple(r) ==
    <<SafeInt(r.issue_year), SafeInt(r.issue_month), SafeInt(r.issue_day),
      SafeInt(r.issue_number), SafeInt(r.published)>>

\* a sort key that never reads the date of the published time
ResultSortKey_IssueFieldsOnly(r) == IssueTuple(r)

\* _result_sort_key.  A published time is written by its calendar date as
\* the number yyyymmdd, which orders as int(published.timestamp()) does.
ResultSortKey(r) ==
    IF r.issue_year # NoInt /\ r.issue_year # 0
    THEN <<SafeInt(r.issue_year), SafeInt(r.issue_month), SafeInt(r.issue_day),
           SafeInt(r.issue_number), SafeInt(r.published)>>
    ELSE IF r.published # NoInt
         THEN <<r.published \div 10000, (r.published \div 100) % 100, r.published % 100,
                0, r.published>>
         ELSE <<0, 0, 0, SafeInt(r.issue_number), 0>>

RECURSIVE TupleLess(_, _)
\* Python's tuple order
TupleLess(a, b) ==
    IF a = <<>> THEN b # <<>>
    ELSE IF b = <<>> THEN FALSE
    ELSE IF Head(a) # Head(b) THEN Head(a) < Head(b)
    ELSE TupleLess(Tail(a), Tail(b))

\* results.sort(key=_result_sort_key, reverse=True): no result is followed
\* by one with a greater key (results with equal keys keep arrival order)
SortedDescending(results) ==
    \A i \in 1..Len(results) : \A j \in (i+1)..Len(results) :
        ~TupleLess(ResultSortKey(results[i]), ResultSortKey(results[j]))

(***************************************************************************)
(* Download tracker: pure helpers (download_tracker.py)                    *)
(***************************************************************************)
\* a mapping that tests "pause" before "down"
MapQueueStatus_PauseFirst(status) ==
    IF ~Truthy(status) THEN "queued"
    ELSE LET value == LowerSeq(Chars(status))
         IN IF Contains(value, <<"p", "a", "u", "s", "e">>) THEN "paused"
            ELSE IF Contains(value, <<"d", "o", "w", "n">>) THEN "downloading"
            ELSE IF \/ Contains(value, <<"p", "o", "s", "t">>)
                    \/ Contains(value, <<"c", "h", "e", "c", "k">>)
                    \/ Contains(value, <<"e", "x", "t", "r", "a", "c", "t">>) THEN "processing"
            ELSE IF \/ Contains(value, <<"q", "u", "e", "u", "e", "d">>)
                    \/ Contains(value, <<"w", "a", "i", "t", "i", "n", "g">>) THEN "queued"
            ELSE ReplaceSpaces(Lower(status))

\* _map_queue_status
MapQueueStatus(status) ==
    IF ~Truthy(status) THEN "queued"
    ELSE LET value == LowerSeq(Chars(status))
         IN IF Contains(value, <<"d", "o", "w", "n">>) THEN "downloading"
            ELSE IF \/ Contains(value, <<"p", "o", "s", "t">>)
                    \/ Contains(value, <<"c", "h", "e", "c", "k">>)
                    \/ Contains(value, <<"e", "x", "t", "r", "a", "c", "t">>) THEN "processing"
            ELSE IF Contains(value, <<"p", "a", "u", "s", "e">>) THEN "paused"
            ELSE IF \/ Contains(value, <<"q", "u", "e", "u", "e", "d">>)
                    \/ Contains(value, <<"w", "a", "i", "t", "i", "n", "g">>) THEN "queued"
            ELSE ReplaceSpaces(Lower(status))

\* a mapping that knows "failed" but not "failure"
MapHistoryStatus_FailedOnly(status) ==
    IF ~Truthy(status) THEN "completed"
    ELSE LET value == Lower(status)
         IN IF value = "completed" THEN "completed"
            ELSE IF value = "failed" THEN "failed"
            ELSE ReplaceSpaces(value)

\* _map_history_status
MapHistoryStatus(status) ==
    IF ~Truthy(status) THEN "completed"
    ELSE LET value == Lower(status)
         IN IF value = "completed" THEN "completed"
            ELSE IF value \in {"failed", "failure"} THEN "failed"
            ELSE ReplaceSpaces(value)

\* f"{timeleft} remaining"
Remaining(timeleft) == CASE timeleft = "0:05:00" -> "0:05:00 remaining"

\* the update a queue item makes to its job (download_tracker.py 119-148)
QueueUpdate(job, queue_item) ==
    LET status == MapQueueStatus(queue_item.status)
        message == IF status \in {"queued", "downloading"} /\ Truthy(queue_item.timeleft)
                   THEN Remaining(queue_item.timeleft)
                   ELSE IF Truthy(queue_item.timeleft) THEN queue_item.timeleft
                   ELSE job.message
    IN [NoUpdate EXCEPT !.status = status, !.sab_status = queue_item.status,
                        !.progress = queue_item.percentage,
                        !.time_remaining = queue_item.timeleft,
                        !.message = message, !.content_name = queue_item.filename]

\* the update a history item makes to its job (download_tracker.py 150-178)
HistoryUpdate(job, history_item) ==
    LET status == MapHistoryStatus(history_item.status)
    IN [NoUpdate EXCEPT !.status = status, !.sab_status = history_item.status,
                        !.progress = IF status = "completed" THEN 100 ELSE job.progress,
                        !.message = IF status = "completed" THEN "Awaiting import into library"
                                    ELSE history_item.fail_message,
                        !.content_name = history_item.name,
                        !.completed_at = history_item.completed]

\* a reconciliation loop that gives up a job SABnzbd no longer lists
Reconcile_FailsAbsent(js, queue_map, history_map, t) ==
    [i \in 1..Len(js) |->
        IF i \notin ListActiveDownloadJobs(js) \/ ~Truthy(js[i].sabnzbd_id) THEN js[i]
        ELSE IF js[i].sabnzbd_id \in DOMAIN queue_map
             THEN UpdateDownloadJobStatus(js[i], QueueUpdate(js[i], queue_map[js[i].sabnzbd_id]), t)
        ELSE IF js[i].sabnzbd_id \in DOMAIN history_map
             THEN UpdateDownloadJobStatus(js[i],
                                          HistoryUpdate(js[i], history_map[js[i].sabnzbd_id]), t)
        ELSE MarkDownloadJobFailed(js[i], "Missing from SABnzbd.", t)]

\* a reconciliation loop that looks a job up in the history first
Reconcile_HistoryFirst(js, queue_map, history_map, t) ==
    [i \in 1..Len(js) |->
        IF i \notin ListActiveDownloadJobs(js) \/ ~Truthy(js[i].sabnzbd_id) THEN js[i]
        ELSE IF js[i].sabnzbd_id \in DOMAIN history_map
             THEN UpdateDownloadJobStatus(js[i],
                                          HistoryUpdate(js[i], history_map[js[i].sabnzbd_id]), t)
        ELSE IF js[i].sabnzbd_id \in DOMAIN queue_map
             THEN UpdateDownloadJobStatus(js[i], QueueUpdate(js[i], queue_map[js[i].sabnzbd_id]), t)
        ELSE js[i]]

\* one pass of the reconciliation loop over list_active_download_jobs; each
\* row is visited once and an update touches that row only
Reconcile(js, queue_map, history_map, t) ==
    [i \in 1..Len(js) |->
        IF i \notin ListActiveDownloadJobs(js) \/ ~Truthy(js[i].sabnzbd_id) THEN js[i]
        ELSE IF js[i].sabnzbd_id \in DOMAIN queue_map
             THEN UpdateDownloadJobStatus(js[i], QueueUpdate(js[i], queue_map[js[i].sabnzbd_id]), t)
        ELSE IF js[i].sabnzbd_id \in DOMAIN history_map
             THEN UpdateDownloadJobStatus(js[i],
                                          HistoryUpdate(js[i], history_map[js[i].sabnzbd_id]), t)
        ELSE js[i]]

WatchedStatuses == {"pending", "queued", "downloading", "processing", "paused"}

\* a reference that is the latest of the three stamps
AutoFailReference_MostRecent(job) ==
    CHOOSE x \in {job.last_seen, job.updated_at, job.created_at} :
        \A y \in {job.last_seen, job.updated_at, job.created_at} : y <= x

\* reference = job.last_seen or job.updated_at or job.created_at
AutoFailReference(job) ==
    IF job.last_seen # NoInt THEN job.last_seen
    ELSE IF job.updated_at # NoInt THEN job.updated_at
    ELSE job.created_at

\* a sweep with the age test the wrong way round
AutoFailed_Inverted(js, threshold, t) ==
    {i \in ListActiveDownloadJobs(js) :
        /\ js[i].status \in WatchedStatuses
        /\ AutoFailReference(js[i]) # NoInt
        /\ t - AutoFailReference(js[i]) < threshold}

\* the rows one _auto_fail_jobs sweep marks failed
AutoFailed(js, threshold, t) ==
    {i \in ListActiveDownloadJobs(js) :
        /\ js[i].status \in WatchedStatuses
        /\ AutoFailReference(js[i]) # NoInt
        /\ ~(t - AutoFailReference(js[i]) < threshold)}

\* _auto_fail_jobs
AutoFailJobs(js, enabled, threshold_minutes, t) ==
    IF ~enabled \/ threshold_minutes <= 0 THEN js
    ELSE [i \in 1..Len(js) |->
            IF i \in AutoFailed(js, threshold_minutes, t)
            THEN MarkDownloadJobFailed(js[i], "Auto-failed without SABnzbd progress.", t)
            ELSE js[i]]

(***************************************************************************)
(* Completion monitor: pure helpers (download_monitor.py, services.py)     *)
(***************************************************************************)
OrEmpty(s) == IF s = None THEN "" ELSE s

\* the tests find_download_job_for_entry makes on one candidate row
EntryMatches(candidate, entry_name) ==
    LET compare_targets == {OrEmpty(candidate.clean_name), OrEmpty(candidate.content_name),
                            OrEmpty(candidate.title)}
    IN \/ \E normalized_entry \in {Lower(Strip(entry_name))} :
            \E compare \in {Lower(Strip(target)) : target \in compare_targets} :
                compare # "" /\ (compare = normalized_entry
                                 \/ Stem(compare) = Stem(normalized_entry))
       \/ /\ Truthy(candidate.title)
          /\ Lower(Stem(candidate.title)) = Lower(Stem(Strip(entry_name)))

\* find_download_job_for_entry: the first matching row, 0 for None
FindDownloadJobForEntry(js, entry_name) ==
    LET candidates == {i \in 1..Len(js) :
                          js[i].status \in {"pending", "queued", "downloading", "processing",
                                            "completed"}}
        First(matching) ==
            IF matching = {} THEN 0 ELSE CHOOSE i \in matching : \A k \in matching : i <= k
    IN First({i \in candidates : EntryMatches(js[i], entry_name)})

\* no entry of that name in the downloads directory
Absent == [mtime |-> NoInt, kids |-> {}]

\* the version of _entry_is_ready that looks at the entry alone
EntryIsReady_IgnoresKids(entry, settle_seconds, t) ==
    /\ entry # Absent
    /\ ~(t - entry.mtime < settle_seconds)

\* _entry_is_ready: the entry exists (stat does not raise), and the mtime of
\* the entry and of every descendant (kids, empty for a plain file) is at
\* least settle_seconds old
EntryIsReady(entry, settle_seconds, t) ==
    /\ entry # Absent
    /\ ~(t - entry.mtime < settle_seconds)
    /\ \A m \in entry.kids : ~(t - m < settle_seconds)

(***************************************************************************)
(* Environment of the model: the Magazine table, what the indexers, the    *)
(* SABnzbd API and the downloads directory can hold                        *)
(***************************************************************************)
\* rows of the Magazine table (title, auto_download_since_year / _issue)
Magazines ==
    {[title |-> "Wired", auto_download_since_year |-> 2024, auto_download_since_issue |-> 5]}

\* SearchResult rows the providers can return, with the issue fields
\* _parse_torznab_response attaches to them
ResultA ==
    [title |-> "Wired 2025 01", link |-> "nzb/a", magazine_title |-> "Wired",
     issue_code |-> "20250001", issue_label |-> "Issue 1 2025", issue_year |-> 2025,
     issue_month |-> NoInt, issue_day |-> NoInt, issue_number |-> 1, published |-> 20250105]

ResultB ==
    [title |-> "Wired 2024 06", link |-> "nzb/b", magazine_title |-> "Wired",
     issue_code |-> "20240006", issue_label |-> "Issue 6 2024", issue_year |-> 2024,
     issue_month |-> NoInt, issue_day |-> NoInt, issue_number |-> 6, published |-> 20240610]

\* a second release of the issue of ResultB
ResultC ==
    [title |-> "WIRED.2024.06", link |-> "nzb/c", magazine_title |-> "Wired",
     issue_code |-> "20240006", issue_label |-> "Issue 6 2024", issue_year |-> 2024,
     issue_month |-> NoInt, issue_day |-> NoInt, issue_number |-> 6, published |-> 20240610]

Catalog == {ResultA, ResultB, ResultC}

\* what search_magazines can return: any selection of the catalog, sorted
SearchOutcomes ==
    {rs \in UNION {[1..n -> Catalog] : n \in 0..Cardinality(Catalog)} :
        /\ \A i \in 1..Len(rs) : \A j \in 1..Len(rs) : i # j => rs[i] # rs[j]
        /\ SortedDescending(rs)}

\* ids SABnzbd hands out
NzoIds == {"SABnzbd_nzo_a", "SABnzbd_nzo_b"}

\* what one enqueue_url call can do: return the nzo_ids of the response, or
\* raise SabnzbdError, or raise anything else (httpx error)
EnqueueOutcomes ==
    {[kind |-> "ok", nzo_ids |-> ids] :
        ids \in {<<>>} \cup {<<x>> : x \in NzoIds} \cup
                {<<x, y>> : <<x, y>> \in {p \in NzoIds \X NzoIds : p[1] # p[2]}}}
    \cup {[kind |-> "SabnzbdError", nzo_ids |-> <<>>], [kind |-> "Exception", nzo_ids |-> <<>>]}

\* slots of the SABnzbd queue (SabnzbdQueueItem without its nzo_id)
QueueItems ==
    {[filename |-> "Wired 2024 06", status |-> "Downloading", percentage |-> 50,
      timeleft |-> "0:05:00"],
     [filename |-> "Wired 2024 06", status |-> "Paused", percentage |-> 50,
      timeleft |-> None]}

\* slots of the SABnzbd history (SabnzbdHistoryItem without its nzo_id)
HistoryItems ==
    {[name |-> "Wired 2024 06", status |-> "Completed", completed |-> 1, fail_message |-> ""],
     [name |-> "Wired 2024 06", status |-> "Failed", completed |-> 1,
      fail_message |-> "Repair failed"]}

\* queue_map / history_map of one tracker cycle: nzo_id -> item
QueueMaps == UNION {[ids -> QueueItems] : ids \in SUBSET NzoIds}

HistoryMaps == UNION {[ids -> HistoryItems] : ids \in SUBSET NzoIds}

EmptyMap == [x \in {} |-> x]

\* names SABnzbd gives to finished downloads in the downloads directory
EntryNames == {"Wired 2024 06"}

\* most descendants of a download directory the model follows
MaxKids == 1

\* bodies of POST /sabnzbd/download: a release picked from a search, with or
\* without the metadata block
Payloads ==
    {[title |-> r.title, link |-> r.link, metadata |-> TRUE, result |-> r] : r \in Catalog}
    \cup {[title |-> ResultB.title, link |-> ResultB.link, metadata |-> FALSE, result |-> ResultB]}

\* what process_download_entry / the staging move of one entry can do
ImportOutcomes == {"stage_fails", "fails_early", "fails_mid", "fails_late", "ok"}

\* _derive_issue_artifacts: the sanitized name of the issue
SanitizedName(job) == IF job.issue_year = 2025 THEN "Wired_01_2025" ELSE "Wired_06_2024"

\* past of a specification that does not follow the history of the rows
Untracked == <<{}>>

\* the history of the table after it became js: each row has had the
\* statuses it had before and the one DownloadJob.status holds now
Witnessed(p, js) ==
    IF p = Untracked THEN p
    ELSE [i \in 1..Len(js) |-> (IF i <= Len(p) THEN p[i] ELSE {}) \cup {js[i].status}]

(***************************************************************************)
(* State                                                                   *)
(***************************************************************************)
VARIABLES
    jobs,           \* the DownloadJob table, in row-id order
    now,            \* the clock
    configured,     \* SabnzbdConfig has base_url and api_key
    max_results,    \* AutoDownloadConfig.max_results_per_scan
    auto_fail,      \* AppConfig.auto_fail_enabled
    scan_lock,      \* AutoDownloader._scan_lock.locked()
    spc,            \* where each caller of _sync_once is: the loop task and the scan_now calls
    sel,            \* per caller: the candidates of its scan not yet enqueued
    enq,            \* per caller: `enqueued` of its scan
    jidx,           \* per caller: job_index of its scan
    ret,            \* per scan_now call: what it returned
    tpc,            \* where the tracker cycle is
    queue_map,      \* tracker cycle: queue snapshot by nzo_id
    history_map,    \* tracker cycle: history snapshot by nzo_id
    mpc,            \* where the monitor scan is
    entries,        \* monitor scan: listed entries not yet visited
    downloads,      \* the downloads directory: name -> mtime and mtimes of descendants
    call,           \* the latest direct call of a function of the program: arguments and outcome
    past            \* history: per row of the table, the statuses the row has had

vars == <<jobs, now, configured, max_results, auto_fail, scan_lock, spc, sel, enq, jidx, ret,
          tpc, queue_map, history_map, mpc, entries, downloads, call, past>>

cfgVars == <<configured, max_results, auto_fail>>
schedVars == <<scan_lock, spc, sel, enq, jidx, ret>>
trackVars == <<tpc, queue_map, history_map>>
monVars == <<mpc, entries, downloads>>

\* the callers of _sync_once: the task of _run, and the scan_now calls that
\* can be in flight at once
LoopTask == 0

Manuals == 1..MaxManual

Scanners == {LoopTask} \cup Manuals

NoReturn == [kind |-> "none", started |-> FALSE, enqueued |-> 0]

NoCall == [kind |-> "none"]

\* no scan, no tracker cycle and no monitor scan has begun
InitControl ==
    /\ scan_lock = FALSE
    /\ spc = [p \in Scanners |-> IF p = LoopTask THEN "off" ELSE "idle"]
    /\ sel = [p \in Scanners |-> <<>>]
    /\ enq = [p \in Scanners |-> 0]
    /\ jidx = [p \in Scanners |-> EmptyMap]
    /\ ret = [m \in Manuals |-> NoReturn]
    /\ tpc = "idle"
    /\ queue_map = EmptyMap
    /\ history_map = EmptyMap
    /\ mpc = "idle"
    /\ entries = {}

\* the application right after startup: empty job table, empty downloads
\* directory
Init ==
    /\ InitControl
    /\ call = NoCall
    /\ jobs = <<>>
    /\ past = Untracked
    /\ now = 0
    /\ configured \in BOOLEAN
    /\ max_results \in 1..MaxResultsBound
    /\ auto_fail \in BOOLEAN
    /\ downloads = [n \in EntryNames |-> Absent]

\* no coroutine is inside a block of synchronous code that spans several
\* steps of the model (tracker: reconcile then sweep; monitor: one scan)
Quiet == tpc # "sweep" /\ mpc # "scan"

(***************************************************************************)
(* Clock and configuration                                                 *)
(***************************************************************************)
\* the clock advances, up to the given time
TickTo(last) ==
    /\ Quiet
    /\ now < last
    /\ now' = now + 1
    /\ UNCHANGED <<call, jobs, past, cfgVars, schedVars, trackVars, monVars>>

Tick == TickTo(MaxTime)

\* update_sabnzbd_config: the connection settings are set or cleared
UpdateSabnzbdConfig ==
    /\ Quiet
    /\ configured' = ~configured
    /\ UNCHANGED <<call, jobs, past, now, max_results, auto_fail, schedVars, trackVars, monVars>>

(***************************************************************************)
(* Auto downloader (auto_downloader.py)                                    *)
(***************************************************************************)
\* the upsert arguments _enqueue_result builds for one nzo_id
ScanUpsertArgs(result, nzo_id) ==
    [nzo_id |-> nzo_id, title |-> result.title, magazine_title |-> result.magazine_title,
     link |-> result.link, status |-> "queued", issue_code |-> result.issue_code,
     issue_label |-> result.issue_label, issue_year |-> result.issue_year,
     issue_month |-> result.issue_month, issue_number |-> result.issue_number]

RECURSIVE UpsertEach(_, _, _, _)
\* for nzo_id in sab_result.nzo_ids: upsert_download_job(...)
UpsertEach(js, nzo_ids, args, t) ==
    IF nzo_ids = <<>> THEN js
    ELSE UpsertEach(UpsertDownloadJob(js, [args EXCEPT !.nzo_id = Head(nzo_ids)], t),
                    Tail(nzo_ids), args, t)

\* _sync_once leaves `async with self._scan_lock` and its caller goes on:
\* _run to its wait_for, scan_now to its return
Leave(pcs, p, outcome) ==
    /\ scan_lock' = FALSE
    /\ spc' = [pcs EXCEPT ![p] = IF p = LoopTask THEN "sleep" ELSE "done"]
    /\ ret' = IF p \in Manuals THEN [ret EXCEPT ![p] = outcome] ELSE ret
    /\ sel' = [sel EXCEPT ![p] = <<>>]
    /\ enq' = [enq EXCEPT ![p] = 0]
    /\ jidx' = [jidx EXCEPT ![p] = EmptyMap]

Returned(started, n) == [kind |-> "returned", started |-> started, enqueued |-> n]

Raised == [kind |-> "raised", started |-> FALSE, enqueued |-> 0]

\* `async with self._scan_lock` on a free lock, and the configuration check
\* of _sync_once
EnterScan(pcs, p) ==
    IF configured
    THEN /\ scan_lock' = TRUE
         /\ spc' = [pcs EXCEPT ![p] = "search"]
         /\ UNCHANGED <<call, sel, enq, jidx, ret>>
    ELSE Leave(pcs, p, Raised)

\* AutoDownloader.start
Start ==
    /\ Quiet
    /\ spc[LoopTask] = "off"
    /\ spc' = [spc EXCEPT ![LoopTask] = "acquire"]
    /\ UNCHANGED <<call, jobs, past, now, cfgVars, scan_lock, sel, enq, jidx, ret, trackVars, monVars>>

\* a scan body entered without regard to the lock
CanAcquire_Unguarded == TRUE

\* `async with self._scan_lock` goes through only on a free lock
CanAcquire == ~scan_lock

\* a caller waiting for the scan lock gets it
Acquire(p) ==
    /\ Quiet
    /\ spc[p] = "acquire"
    /\ CanAcquire
    /\ EnterScan(spc, p)
    /\ UNCHANGED <<call, jobs, past, now, cfgVars, trackVars, monVars>>

\* search_magazines returns one of the outcomes over the rows of the
\* Magazine table; job index, guards and selection follow at once; when
\* noted, call keeps the results and the candidates selected from them
SearchDoneOf(p, outcomes, magazines, noted) ==
    /\ Quiet
    /\ spc[p] = "search"
    /\ \E results \in outcomes :
          LET job_index == BuildJobIndex(jobs)
              guards == LoadGuards(magazines)
              candidates == IF results = <<>> THEN <<>>
                            ELSE SelectCandidates(results, job_index, guards, max_results)
          IN /\ call' = IF noted THEN [kind |-> "select", scanner |-> p, results |-> results,
                                      candidates |-> candidates]
                        ELSE call
             /\ IF candidates = <<>>
                THEN Leave(spc, p, Returned(TRUE, 0))
                ELSE /\ spc' = [spc EXCEPT ![p] = "enqueue"]
                     /\ sel' = [sel EXCEPT ![p] = candidates]
                     /\ jidx' = [jidx EXCEPT ![p] = job_index]
                     /\ UNCHANGED <<scan_lock, enq, ret>>
    /\ UNCHANGED <<jobs, past, now, cfgVars, trackVars, monVars>>

SearchDone(p) == SearchDoneOf(p, SearchOutcomes, Magazines, FALSE)

\* a count that takes in the candidates whose enqueue raised
CountEnqueued_CountsFailures(enqueued, ok) == enqueued + 1

\* `enqueued += 1` runs only when _enqueue_result returned
CountEnqueued(enqueued, ok) == IF ok THEN enqueued + 1 ELSE enqueued

\* enqueue_url returns or raises for the next candidate: _enqueue_result,
\* the count, _mark_issue_active, and the return of _sync_once after the
\* last; when noted, call keeps which scan it was and what enqueue_url did
EnqueueStepFrom(p, outcomes, noted) ==
    /\ Quiet
    /\ spc[p] = "enqueue"
    /\ \E out \in outcomes :
          LET c == Head(sel[p])
              ok == out.kind = "ok"
              js2 == IF ok
                     THEN UpsertEach(jobs, out.nzo_ids, ScanUpsertArgs(c.result, None), now)
                     ELSE jobs
              n2 == CountEnqueued(enq[p], ok)
              idx2 == IF ok THEN MarkIssueActive(jidx[p], c.issue_key, c.result.link)
                      ELSE jidx[p]
          IN /\ Len(js2) <= MaxJobs
             /\ jobs' = js2
             /\ past' = Witnessed(past, js2)
             /\ call' = IF noted THEN [kind |-> "enqueue", scanner |-> p, outcome |-> out.kind]
                        ELSE call
             /\ IF Tail(sel[p]) = <<>>
                THEN Leave(spc, p, Returned(TRUE, n2))
                ELSE /\ sel' = [sel EXCEPT ![p] = Tail(sel[p])]
                     /\ enq' = [enq EXCEPT ![p] = n2]
                     /\ jidx' = [jidx EXCEPT ![p] = idx2]
                     /\ UNCHANGED <<scan_lock, spc, ret>>
    /\ UNCHANGED <<now, cfgVars, trackVars, monVars>>

EnqueueStepAs(p, noted) == EnqueueStepFrom(p, EnqueueOutcomes, noted)

EnqueueStep(p) == EnqueueStepAs(p, FALSE)

\* the poll interval of _run elapses
LoopWake ==
    /\ Quiet
    /\ spc[LoopTask] = "sleep"
    /\ spc' = [spc EXCEPT ![LoopTask] = "acquire"]
    /\ UNCHANGED <<call, jobs, past, now, cfgVars, scan_lock, sel, enq, jidx, ret, trackVars, monVars>>

\* a trigger that never sees a scan in progress
Locked_Never == FALSE

\* self._scan_lock.locked()
Locked == scan_lock

\* a trigger that leaves the task of _run as it is
EnsureStarted_Never(pcs) == pcs

\* scan_now: `if not self._task or self._task.done(): self.start()`
EnsureStarted(pcs) == [pcs EXCEPT ![LoopTask] = IF @ = "off" THEN "acquire" ELSE @]

\* AutoDownloader.scan_now up to its first suspension.  On a free lock the
\* call enters the scan body at once, unless a waiter of the lock has been
\* woken and has not run yet: asyncio.Lock then queues the call behind it.
\* A caller in "acquire" while the lock is free may be such a waiter.
ScanNow(m) ==
    /\ Quiet
    /\ spc[m] = "idle"
    /\ LET started == EnsureStarted(spc)
       IN IF Locked
          THEN /\ spc' = [started EXCEPT ![m] = "done"]
               /\ ret' = [ret EXCEPT ![m] = Returned(FALSE, 0)]
               /\ UNCHANGED <<call, scan_lock, sel, enq, jidx>>
          ELSE \/ EnterScan(started, m)
               \/ /\ \E p \in Scanners \ {m} : spc[p] = "acquire"
                  /\ spc' = [started EXCEPT ![m] = "acquire"]
                  /\ UNCHANGED <<call, scan_lock, sel, enq, jidx, ret>>
    /\ UNCHANGED <<call, jobs, past, now, cfgVars, trackVars, monVars>>

\* the caller of scan_now has its answer; the next call can come
ScanNowDone(m) ==
    /\ Quiet
    /\ spc[m] = "done"
    /\ spc' = [spc EXCEPT ![m] = "idle"]
    /\ ret' = [ret EXCEPT ![m] = NoReturn]
    /\ UNCHANGED <<call, jobs, past, now, cfgVars, scan_lock, sel, enq, jidx, trackVars, monVars>>

(***************************************************************************)
(* Manual enqueue (main.py POST /sabnzbd/download)                         *)
(***************************************************************************)
\* the upsert arguments sabnzbd_download_endpoint builds from its payload
PayloadUpsertArgs(payload) ==
    LET r == payload.result
        m == payload.metadata
    IN [nzo_id |-> None,
        title |-> IF payload.title = "" THEN None ELSE payload.title,
        magazine_title |-> IF m THEN r.magazine_title ELSE None,
        link |-> payload.link, status |-> "queued",
        issue_code |-> IF m THEN r.issue_code ELSE None,
        issue_label |-> IF m THEN r.issue_label ELSE None,
        issue_year |-> IF m THEN r.issue_year ELSE NoInt,
        issue_month |-> IF m THEN r.issue_month ELSE NoInt,
        issue_number |-> IF m THEN r.issue_number ELSE NoInt]

\* sabnzbd_download_endpoint, from the response of enqueue_url on, for a
\* payload of the given set and a response of the given set
SabnzbdDownloadOf(payloads, outcomes) ==
    /\ Quiet
    /\ configured
    /\ \E payload \in payloads, out \in outcomes :
          /\ out.kind = "ok"
          /\ LET js2 == UpsertEach(jobs, out.nzo_ids, PayloadUpsertArgs(payload), now)
             IN Len(js2) <= MaxJobs /\ jobs' = js2 /\ past' = Witnessed(past, js2)
    /\ UNCHANGED <<call, now, cfgVars, schedVars, trackVars, monVars>>

SabnzbdDownload == SabnzbdDownloadOf(Payloads, EnqueueOutcomes)

(***************************************************************************)
(* Download tracker (download_tracker.py)                                  *)
(***************************************************************************)
\* _sync_once up to `await fetch_queue`: nothing to do without active jobs,
\* SabnzbdNotConfigured without a connection
TrackerBegin ==
    /\ Quiet
    /\ tpc = "idle"
    /\ ListActiveDownloadJobs(jobs) # {}
    /\ configured
    /\ tpc' = "fetch"
    /\ UNCHANGED <<call, jobs, past, now, cfgVars, schedVars, queue_map, history_map, monVars>>

\* a failed fetch after which the cycle still runs the auto-fail sweep
TrackerFetchFailsAs_Sweeps(record) ==
    /\ Quiet
    /\ tpc = "fetch"
    /\ tpc' = "idle"
    /\ call' = record
    /\ jobs' = AutoFailJobs(jobs, auto_fail, AutoFailMinutes, now)
    /\ past' = Witnessed(past, jobs')
    /\ UNCHANGED <<now, cfgVars, schedVars, queue_map, history_map, monVars>>

\* fetch_queue or fetch_history raises SabnzbdError or a transport error:
\* _sync_once ends there, _run logs the exception and waits for the next
\* cycle; call becomes the given record
TrackerFetchFailsAs(record) ==
    /\ Quiet
    /\ tpc = "fetch"
    /\ tpc' = "idle"
    /\ call' = record
    /\ UNCHANGED <<jobs, past, now, cfgVars, schedVars, queue_map, history_map, monVars>>

TrackerFetchFails == TrackerFetchFailsAs(call)

\* both snapshots are in, one of the given pairs <<queue_map, history_map>>:
\* the reconciliation loop
TrackerReconcileOf(snapshots) ==
    /\ Quiet
    /\ tpc = "fetch"
    /\ \E snap \in snapshots :
          /\ queue_map' = snap[1]
          /\ history_map' = snap[2]
          /\ jobs' = Reconcile(jobs, snap[1], snap[2], now)
          /\ past' = Witnessed(past, Reconcile(jobs, snap[1], snap[2], now))
    /\ tpc' = "sweep"
    /\ UNCHANGED <<call, now, cfgVars, schedVars, monVars>>

TrackerReconcile == TrackerReconcileOf(QueueMaps \X HistoryMaps)

\* self._auto_fail_jobs(session, app_config), in the same synchronous block
TrackerSweep ==
    /\ tpc = "sweep"
    /\ jobs' = AutoFailJobs(jobs, auto_fail, AutoFailMinutes, now)
    /\ past' = Witnessed(past, AutoFailJobs(jobs, auto_fail, AutoFailMinutes, now))
    /\ tpc' = "idle"
    /\ queue_map' = EmptyMap
    /\ history_map' = EmptyMap
    /\ UNCHANGED <<call, now, cfgVars, schedVars, monVars>>

(***************************************************************************)
(* Completion monitor (download_monitor.py, download_processor.py)         *)
(***************************************************************************)
\* str(staging_dir / name)
StagingPath(name) ==
    CASE name = "Wired 2024 06" -> "/staging/Wired 2024 06"
      [] name = "Wired 2025 01.pdf" -> "/staging/Wired 2025 01.pdf"
      [] name = "Wired_06_2024" -> "/staging/Wired_06_2024"
      [] name = "Wired_01_2025" -> "/staging/Wired_01_2025"

\* a first update that also stores the month process_download_entry
\* inferred for the issue
ImportPrepare_StoresInferredMonth(job, name, t) ==
    [UpdateDownloadJobStatus(job,
        [NoUpdate EXCEPT !.status = "processing", !.message = "Preparing files",
                         !.content_name = IF Truthy(job.content_name) THEN job.content_name
                                          ELSE name,
                         !.clean_name = SanitizedName(job),
                         !.staging_path = StagingPath(name)], t)
     EXCEPT !.issue_month = 6]

\* first update_download_job_status of process_download_entry (66-74)
ImportPrepare(job, name, t) ==
    UpdateDownloadJobStatus(job,
        [NoUpdate EXCEPT !.status = "processing", !.message = "Preparing files",
                         !.content_name = IF Truthy(job.content_name) THEN job.content_name
                                          ELSE name,
                         !.clean_name = SanitizedName(job),
                         !.staging_path = StagingPath(name)], t)

\* a second update that also sets the status back to completed
ImportProcessed_MarksCompleted(job, t) ==
    UpdateDownloadJobStatus(job,
        [NoUpdate EXCEPT !.status = "completed", !.message = "Processed and ready to import",
                         !.content_name = SanitizedName(job),
                         !.clean_name = SanitizedName(job),
                         !.staging_path = StagingPath(SanitizedName(job))], t)

\* second update_download_job_status of process_download_entry (118-129),
\* after the staged entry was renamed to the sanitized name
ImportProcessed(job, t) ==
    UpdateDownloadJobStatus(job,
        [NoUpdate EXCEPT !.message = "Processed and ready to import",
                         !.content_name = SanitizedName(job),
                         !.clean_name = SanitizedName(job),
                         !.staging_path = StagingPath(SanitizedName(job))], t)

\* a _move_entry that records the move although the import raised at its end
MoveEntryJob_MovedDespiteFailure(job, name, outcome, t) ==
    IF outcome \in {"stage_fails", "fails_early"} THEN job
    ELSE IF outcome = "fails_mid" THEN ImportPrepare(job, name, t)
    ELSE MarkDownloadJobMoved(ImportProcessed(ImportPrepare(job, name, t), t),
                              SanitizedName(job), t)

\* _move_entry with a staging directory: the row of the matched job after
\* the staging move and process_download_entry took the given course
MoveEntryJob(job, name, outcome, t) ==
    IF outcome \in {"stage_fails", "fails_early"} THEN job
    ELSE IF outcome = "fails_mid" THEN ImportPrepare(job, name, t)
    ELSE IF outcome = "fails_late" THEN ImportProcessed(ImportPrepare(job, name, t), t)
    ELSE MarkDownloadJobMoved(ImportProcessed(ImportPrepare(job, name, t), t),
                              SanitizedName(job), t)

\* _move_entry without the test of the job status
MoveEntryTarget_AnyStatus(js, name) == FindDownloadJobForEntry(js, name)

\* _move_entry that also imports for a job still queued
MoveEntryTarget_AcceptsQueued(js, name) ==
    LET Accepted(i) ==
            IF i # 0 /\ js[i].status \in {"queued", "completed", "processing"} THEN i ELSE 0
    IN Accepted(FindDownloadJobForEntry(js, name))

\* the job _move_entry imports the entry for, 0 when it skips the entry
MoveEntryTarget(js, name) ==
    LET Accepted(i) == IF i # 0 /\ js[i].status \in {"completed", "processing"} THEN i ELSE 0
    IN Accepted(FindDownloadJobForEntry(js, name))

\* _scan_once lists the downloads directory, which can hold the names
MonitorBeginOf(names) ==
    /\ Quiet
    /\ mpc = "idle"
    /\ {n \in names : downloads[n] # Absent} # {}
    /\ mpc' = "scan"
    /\ entries' = {n \in names : downloads[n] # Absent}
    /\ UNCHANGED <<call, jobs, past, now, cfgVars, schedVars, trackVars, downloads>>

MonitorBegin == MonitorBeginOf(EntryNames)

\* one round of the loop of _scan_once: the readiness test, then _move_entry
\* for an entry that passed it; call keeps what the round saw and did
MonitorEntry(name) ==
    /\ mpc = "scan"
    /\ name \in entries
    /\ entries' = entries \ {name}
    /\ mpc' = IF entries' = {} THEN "idle" ELSE "scan"
    /\ \E ready \in {EntryIsReady(downloads[name], SettleSeconds, now)} :
       \E i \in {IF ready THEN MoveEntryTarget(jobs, name) ELSE 0} :
       \E outcome \in (IF i = 0 THEN {"skipped"} ELSE ImportOutcomes) :
          /\ call' = [kind |-> "scan_entry", name |-> name, ready |-> ready,
                      handed |-> ready, job |-> i,
                      matched |-> IF i = 0 THEN None ELSE jobs[i].status,
                      outcome |-> outcome]
          /\ jobs' = IF i = 0 THEN jobs
                     ELSE [jobs EXCEPT ![i] = MoveEntryJob(jobs[i], name, outcome, now)]
          /\ past' = IF i = 0 \/ past = Untracked THEN past
                     ELSE Witnessed(IF outcome \in {"stage_fails", "fails_early"} THEN past
                                    ELSE [past EXCEPT ![i] = @ \cup {"processing"}], jobs')
          /\ downloads' = IF i = 0 \/ outcome = "stage_fails" THEN downloads
                          ELSE [downloads EXCEPT ![name] = Absent]
    /\ UNCHANGED <<now, cfgVars, schedVars, trackVars>>

\* SABnzbd creates a download in the downloads directory: a file, or a
\* directory with one file in it
SabCreates(name) ==
    /\ downloads[name] = Absent
    /\ \E dir \in {d \in BOOLEAN : d => MaxKids >= 1} :
          downloads' = [downloads EXCEPT
                           ![name] = [mtime |-> now, kids |-> IF dir THEN {now} ELSE {}]]
    /\ UNCHANGED <<call, jobs, past, now, cfgVars, schedVars, trackVars, mpc, entries>>

\* SABnzbd writes to a download: to the entry itself, to one of its
\* descendants, or it adds a descendant to a directory
SabWrites(name) ==
    /\ downloads[name] # Absent
    /\ \/ downloads' = [downloads EXCEPT ![name].mtime = now]
       \/ \E m \in downloads[name].kids :
             downloads' = [downloads EXCEPT ![name].kids = (@ \ {m}) \cup {now}]
       \/ /\ downloads[name].kids # {}
          /\ Cardinality(downloads[name].kids \cup {now}) <= MaxKids
          /\ downloads' = [downloads EXCEPT ![name].kids = @ \cup {now}, ![name].mtime = now]
    /\ UNCHANGED <<call, jobs, past, now, cfgVars, schedVars, trackVars, mpc, entries>>

(***************************************************************************)
(* The pipeline                                                            *)
(***************************************************************************)
Next ==
    \/ Tick
    \/ UpdateSabnzbdConfig
    \/ Start
    \/ \E p \in Scanners : Acquire(p)
    \/ \E p \in Scanners : SearchDone(p)
    \/ \E p \in Scanners : EnqueueStep(p)
    \/ LoopWake
    \/ \E m \in Manuals : ScanNow(m)
    \/ \E m \in Manuals : ScanNowDone(m)
    \/ SabnzbdDownload
    \/ TrackerBegin
    \/ TrackerFetchFails
    \/ TrackerReconcile
    \/ TrackerSweep
    \/ MonitorBegin
    \/ \E name \in EntryNames : MonitorEntry(name)
    \/ \E name \in EntryNames : SabCreates(name)
    \/ \E name \in EntryNames : SabWrites(name)

Spec == Init /\ [][Next]_vars

(***************************************************************************)
(* The scheduler: the loop task and scan_now calls contending for the scan *)
(* lock, over a job table that starts empty                                *)
(***************************************************************************)
InitSched ==
    /\ InitControl
    /\ call = NoCall
    /\ jobs = <<>>
    /\ past = Untracked
    /\ now = 0
    /\ configured \in BOOLEAN
    /\ max_results \in 1..MaxResultsBound
    /\ auto_fail = FALSE
    /\ downloads = [n \in EntryNames |-> Absent]

NextSched ==
    \/ Start
    \/ \E p \in Scanners : Acquire(p)
    \/ \E p \in Scanners : SearchDone(p)
    \/ \E p \in Scanners : EnqueueStep(p)
    \/ LoopWake
    \/ \E m \in Manuals : ScanNow(m)
    \/ \E m \in Manuals : ScanNowDone(m)

SpecSched == InitSched /\ [][NextSched]_vars

(***************************************************************************)
(* scan_now on an AutoDownloader that nobody started                       *)
(***************************************************************************)
NextTrigger ==
    \/ \E p \in Scanners : Acquire(p)
    \/ \E p \in Scanners : SearchDone(p)
    \/ \E p \in Scanners : EnqueueStep(p)
    \/ LoopWake
    \/ \E m \in Manuals : ScanNow(m)
    \/ \E m \in Manuals : ScanNowDone(m)

SpecTrigger == InitSched /\ [][NextTrigger]_vars

(***************************************************************************)
(* One caller of scan_now running scan after scan, with what enqueue_url   *)
(* did for each candidate on record                                        *)
(***************************************************************************)
ScanEnqueueStep(m) == EnqueueStepAs(m, TRUE)

InitScan ==
    /\ InitControl
    /\ call = NoCall
    /\ jobs = <<>>
    /\ past = Untracked
    /\ now = 0
    /\ configured = TRUE
    /\ max_results \in 1..MaxResultsBound
    /\ auto_fail = FALSE
    /\ downloads = [n \in EntryNames |-> Absent]

NextScan ==
    \/ ScanNow(1)
    \/ Acquire(1)
    \/ SearchDone(1)
    \/ ScanEnqueueStep(1)
    \/ ScanNowDone(1)

SpecScan == InitScan /\ [][NextScan]_vars

(***************************************************************************)
(* Selection: the scans of the loop task and manual enqueues over a job    *)
(* table that earlier tracker cycles may have left a failed row in         *)
(***************************************************************************)
\* the row a scan creates for a result
SeedQueued(result, nzo_id) == NewJob(ScanUpsertArgs(result, nzo_id), 0)

\* that row after the tracker found it failed in the SABnzbd history
SeedFailed(result, nzo_id) ==
    UpdateDownloadJobStatus(SeedQueued(result, nzo_id),
        HistoryUpdate(SeedQueued(result, nzo_id),
                      [name |-> "Wired 2024 06", status |-> "Failed", completed |-> 1,
                       fail_message |-> "Repair failed"]), 0)

SelectSeeds == {<<>>, <<SeedFailed(ResultB, "SABnzbd_nzo_a")>>}

InitSelect ==
    /\ InitControl
    /\ call = NoCall
    /\ jobs \in SelectSeeds
    /\ past = Untracked
    /\ now = 0
    /\ configured = TRUE
    /\ max_results \in 1..MaxResultsBound
    /\ auto_fail = FALSE
    /\ downloads = [n \in EntryNames |-> Absent]

NextSelect ==
    \/ Start
    \/ Acquire(LoopTask)
    \/ SearchDone(LoopTask)
    \/ EnqueueStep(LoopTask)
    \/ LoopWake
    \/ SabnzbdDownload

SpecSelect == InitSelect /\ [][NextSelect]_vars

(***************************************************************************)
(* One scan over a job table in which the tracker left the row of an issue *)
(* in the status it mapped from the SABnzbd queue                          *)
(***************************************************************************)
\* the status strings of the queue slot of the seeded row
InFlightRaw == {"Queued", "Downloading", "Checking", "Waiting", "Paused", "Fetching NZB"}

\* the row of ResultB after a tracker cycle that found it in the queue
SeedInQueue(raw) ==
    UpdateDownloadJobStatus(SeedQueued(ResultB, "SABnzbd_nzo_a"),
        QueueUpdate(SeedQueued(ResultB, "SABnzbd_nzo_a"),
                    [filename |-> "Wired 2024 06", status |-> raw, percentage |-> 50,
                     timeleft |-> None]), 0)

InitInFlight ==
    /\ InitControl
    /\ call = NoCall
    /\ jobs \in {<<SeedInQueue(raw)>> : raw \in InFlightRaw}
    /\ past = Untracked
    /\ now = 0
    /\ configured = TRUE
    /\ max_results \in 1..MaxResultsBound
    /\ auto_fail = FALSE
    /\ downloads = [n \in EntryNames |-> Absent]

NextInFlight == ScanNow(1) \/ SearchDone(1) \/ EnqueueStep(1)

SpecInFlight == InitInFlight /\ [][NextInFlight]_vars

(***************************************************************************)
(* The loop task scanning again and again over one result list, with a     *)
(* SABnzbd that takes every NZB and answers with one nzo_id                *)
(***************************************************************************)
\* enqueue_url returns with one nzo_id
AcceptedOutcomes == {out \in EnqueueOutcomes : out.kind = "ok" /\ Len(out.nzo_ids) = 1}

\* the result lists search_magazines returns scan after scan
SteadyOutcomes == {rs \in SearchOutcomes : Len(rs) >= 2}

InitSteady ==
    /\ InitControl
    /\ call \in [kind : {"results"}, results : SteadyOutcomes]
    /\ jobs = <<>>
    /\ past = Untracked
    /\ now = 0
    /\ configured = TRUE
    /\ max_results \in 1..MaxResultsBound
    /\ auto_fail = FALSE
    /\ downloads = [n \in EntryNames |-> Absent]

SteadySearchDone == SearchDoneOf(LoopTask, {call.results}, Magazines, FALSE)

SteadyEnqueueStep == EnqueueStepFrom(LoopTask, AcceptedOutcomes, FALSE)

NextSteady ==
    \/ Start
    \/ Acquire(LoopTask)
    \/ SteadySearchDone
    \/ SteadyEnqueueStep
    \/ LoopWake

SpecSteady == InitSteady /\ [][NextSteady]_vars

\* where the task of _run can be
LoopPositions == {"off", "acquire", "search", "enqueue", "sleep"}

\* the task of _run goes from where it is to another place
LoopAdvances ==
    \E pc \in LoopPositions \ {spc[LoopTask]} : spc' = [spc EXCEPT ![LoopTask] = pc]

\* _run keeps scanning.  The loop task is the only process here, one of its
\* steps can be taken in every state, and each of them moves it to another
\* place: the event loop runs it on, so it advances again and again.
SpecSteadyFair == SpecSteady /\ WF_spc(LoopAdvances)

(***************************************************************************)
(* Ranking: one scan over two magazines, with results that come sorted out *)
(* of search_magazines and may lack the issue fields                       *)
(***************************************************************************)
\* the Magazine table with a second magazine that sets no threshold
Shelf ==
    Magazines \cup
    {[title |-> "Edge", auto_download_since_year |-> NoInt, auto_download_since_issue |-> NoInt]}

ResultD ==
    [title |-> "Edge 2024 06", link |-> "nzb/d", magazine_title |-> "Edge",
     issue_code |-> "20240006", issue_label |-> "Issue 6 2024", issue_year |-> 2024,
     issue_month |-> NoInt, issue_day |-> NoInt, issue_number |-> 6, published |-> 20240612]

\* a release whose title parse_issue finds no date word in
ResultE ==
    [title |-> "Edge Extra", link |-> "nzb/e", magazine_title |-> "Edge",
     issue_code |-> None, issue_label |-> None, issue_year |-> NoInt,
     issue_month |-> NoInt, issue_day |-> NoInt, issue_number |-> NoInt, published |-> 20250220]

\* results the providers can return for the two magazines
ShelfCatalog == {ResultA, ResultB, ResultD, ResultE}

\* list.sort is stable, with reverse=True too: a result goes behind every
\* result of the list whose key is not smaller
InsertResult(sorted, r) ==
    LET ahead == Cardinality({i \in 1..Len(sorted) :
                     ~TupleLess(ResultSortKey(sorted[i]), ResultSortKey(r))})
    IN SubSeq(sorted, 1, ahead) \o <<r>> \o SubSeq(sorted, ahead + 1, Len(sorted))

RECURSIVE SortResults(_)
\* results.sort(key=_result_sort_key, reverse=True)
SortResults(results) ==
    IF results = <<>> THEN <<>>
    ELSE InsertResult(SortResults(SubSeq(results, 1, Len(results) - 1)), results[Len(results)])

\* the results in the order the providers answered
Arrivals ==
    {rs \in UNION {[1..n -> ShelfCatalog] : n \in 0..Cardinality(ShelfCatalog)} :
        \A i \in 1..Len(rs) : \A j \in 1..Len(rs) : i # j => rs[i] # rs[j]}

\* what search_magazines can return over the shelf
ShelfOutcomes == {SortResults(rs) : rs \in Arrivals}

RankSearchDone(m) == SearchDoneOf(m, ShelfOutcomes, Shelf, TRUE)

\* max_results_per_scan is an int of AutoDownloadConfig that nothing checks;
\* the job table is empty or holds the row of an earlier scan
InitRank ==
    /\ InitControl
    /\ call = NoCall
    /\ jobs \in {<<>>, <<SeedQueued(ResultA, "SABnzbd_nzo_a")>>}
    /\ past = Untracked
    /\ now = 0
    /\ configured = TRUE
    /\ max_results \in 0..MaxResultsBound
    /\ auto_fail = FALSE
    /\ downloads = [n \in EntryNames |-> Absent]

NextRank ==
    \/ ScanNow(1)
    \/ RankSearchDone(1)
    \/ ScanEnqueueStep(1)

SpecRank == InitRank /\ [][NextRank]_vars

(***************************************************************************)
(* upsert_download_job on its own: any sequence of calls while time passes *)
(***************************************************************************)
\* keyword arguments of the calls: what the scan passes for a result, what
\* the manual endpoint passes with and without metadata, for every id
\* SABnzbd can answer with, the empty id included
UpsertArgsDomain ==
    {[base EXCEPT !.nzo_id = id] :
        base \in {ScanUpsertArgs(ResultA, None), ScanUpsertArgs(ResultB, None),
                  PayloadUpsertArgs([title |-> "", link |-> ResultB.link,
                                     metadata |-> FALSE, result |-> ResultB])},
        id \in NzoIds \cup {""}}

\* one call of upsert_download_job
UpsertCall ==
    \E a \in UpsertArgsDomain :
        LET i == IF Truthy(a.nzo_id) THEN GetDownloadJobByNzo(jobs, a.nzo_id) ELSE 0
        IN /\ jobs' = UpsertDownloadJob(jobs, a, now)
           /\ past' = Witnessed(past, UpsertDownloadJob(jobs, a, now))
           /\ Len(jobs') <= MaxJobs
           /\ call' = [kind |-> IF i = 0 THEN "insert" ELSE "update", args |-> a, row |-> i]
           /\ UNCHANGED <<now, cfgVars, schedVars, trackVars, monVars>>

InitUpsert ==
    /\ InitControl
    /\ call = NoCall
    /\ jobs = <<>>
    /\ past = Untracked
    /\ now = 0
    /\ configured = TRUE
    /\ max_results = 1
    /\ auto_fail = FALSE
    /\ downloads = [n \in EntryNames |-> Absent]

NextUpsert == UpsertCall \/ Tick

SpecUpsert == InitUpsert /\ [][NextUpsert]_vars

(***************************************************************************)
(* The tracker over a job table that earlier scans, tracker cycles and     *)
(* imports filled                                                          *)
(***************************************************************************)
\* a row the tracker saw downloading in the SABnzbd queue
SeedDownloading(result, nzo_id) ==
    UpdateDownloadJobStatus(SeedQueued(result, nzo_id),
        QueueUpdate(SeedQueued(result, nzo_id),
                    [filename |-> "Wired 2024 06", status |-> "Downloading", percentage |-> 50,
                     timeleft |-> "0:05:00"]), 0)

\* a row the tracker found completed in the SABnzbd history
SeedCompleted(result, nzo_id) ==
    UpdateDownloadJobStatus(SeedQueued(result, nzo_id),
        HistoryUpdate(SeedQueued(result, nzo_id),
                      [name |-> "Wired 2024 06", status |-> "Completed", completed |-> 1,
                       fail_message |-> ""]), 0)

\* that row after the monitor imported its download
SeedMoved(result, nzo_id) ==
    MoveEntryJob(SeedCompleted(result, nzo_id), "Wired 2024 06", "ok", 0)

\* the rows a table can start with for one SABnzbd id
SeedRows(nzo_id) ==
    {SeedQueued(ResultB, nzo_id), SeedDownloading(ResultB, nzo_id),
     SeedCompleted(ResultB, nzo_id), SeedFailed(ResultB, nzo_id), SeedMoved(ResultB, nzo_id)}

\* the ids of the rows of a starting table, in row order
SeedIds == <<"SABnzbd_nzo_a", "SABnzbd_nzo_b">>

Min(a, b) == IF a <= b THEN a ELSE b

TrackSeeds ==
    {js \in UNION {[1..n -> UNION {SeedRows(SeedIds[k]) : k \in 1..Len(SeedIds)}] :
                       n \in 1..Min(MaxJobs, Len(SeedIds))} :
        \A i \in 1..Len(js) : js[i].sabnzbd_id = SeedIds[i]}

InitTrack ==
    /\ InitControl
    /\ call = NoCall
    /\ jobs \in TrackSeeds
    /\ past = Untracked
    /\ now = 0
    /\ configured = TRUE
    /\ max_results = 1
    /\ auto_fail \in BOOLEAN
    /\ downloads = [n \in EntryNames |-> Absent]

NextTrack ==
    \/ Tick
    \/ TrackerBegin
    \/ TrackerFetchFails
    \/ TrackerReconcile
    \/ TrackerSweep

SpecTrack == InitTrack /\ [][NextTrack]_vars

(***************************************************************************)
(* _passes_guard on its own: one call on a guard and a search result       *)
(***************************************************************************)
\* the years around the auto_download_since_year of the Magazine row
YearSpan == 1

GuardYears == (2024 - YearSpan)..(2024 + YearSpan)

\* the largest issue number of a result or threshold
MaxIssue == 6

GuardIssues == 1..MaxIssue

\* the MagazineGuard values: thresholds set or not, tokens of "Wired" or none
Guards ==
    [min_year : GuardYears \cup {NoInt}, min_issue : GuardIssues \cup {NoInt},
     tokens : {{}, ExtractTitleTokens("Wired")}]

\* the fields of a SearchResult that _passes_guard reads
GuardedResults ==
    [title : {"Wired 2024 06", "WIRED.2024.06", "20240006", "", None},
     issue_year : GuardYears \cup {NoInt}, issue_number : GuardIssues \cup {NoInt}]

InitGuard ==
    /\ InitControl
    /\ call \in [kind : {"input"}, result : GuardedResults, guard : Guards]
    /\ jobs = <<>>
    /\ past = Untracked
    /\ now = 0
    /\ configured = TRUE
    /\ max_results = 1
    /\ auto_fail = FALSE
    /\ downloads = [n \in EntryNames |-> Absent]

\* self._passes_guard(result, guard)
CallPassesGuard ==
    /\ call.kind = "input"
    /\ call' = [kind |-> "passes_guard", result |-> call.result, guard |-> call.guard,
                passed |-> PassesGuard(call.result, call.guard)]
    /\ UNCHANGED <<jobs, past, now, cfgVars, schedVars, trackVars, monVars>>

NextGuard == CallPassesGuard

SpecGuard == InitGuard /\ [][NextGuard]_vars

(***************************************************************************)
(* The monitor over a downloads directory SABnzbd fills, with the job of   *)
(* the download completed or still downloading                             *)
(***************************************************************************)
MonitorSeeds ==
    {<<SeedCompleted(ResultB, "SABnzbd_nzo_a")>>, <<SeedDownloading(ResultB, "SABnzbd_nzo_a")>>}

InitMonitor ==
    /\ InitControl
    /\ call = NoCall
    /\ jobs \in MonitorSeeds
    /\ past = Untracked
    /\ now = 0
    /\ configured = TRUE
    /\ max_results = 1
    /\ auto_fail = FALSE
    /\ downloads = [n \in EntryNames |-> Absent]

NextMonitor ==
    \/ Tick
    \/ MonitorBegin
    \/ \E name \in EntryNames : MonitorEntry(name)
    \/ \E name \in EntryNames : SabCreates(name)
    \/ \E name \in EntryNames : SabWrites(name)

SpecMonitor == InitMonitor /\ [][NextMonitor]_vars

(***************************************************************************)
(* The monitor over the finished downloads of two completed jobs           *)
(***************************************************************************)
ImportNames == {"Wired 2024 06", "Wired 2025 01.pdf"}

\* the rows of the two jobs, each found completed in the SABnzbd history
ImportSeeds ==
    <<SeedCompleted(ResultB, "SABnzbd_nzo_a"),
      UpdateDownloadJobStatus(SeedQueued(ResultA, "SABnzbd_nzo_b"),
          HistoryUpdate(SeedQueued(ResultA, "SABnzbd_nzo_b"),
                        [name |-> "Wired 2025 01", status |-> "Completed", completed |-> 1,
                         fail_message |-> ""]), 0)>>

\* SABnzbd has just written both downloads, each a file or a directory
\* with one file in it
InitImport ==
    /\ InitControl
    /\ call = NoCall
    /\ jobs = ImportSeeds
    /\ past = Untracked
    /\ now = 0
    /\ configured = TRUE
    /\ max_results = 1
    /\ auto_fail = FALSE
    /\ downloads \in [ImportNames -> {[mtime |-> 0, kids |-> {}], [mtime |-> 0, kids |-> {0}]}]

NextImport ==
    \/ Tick
    \/ MonitorBeginOf(ImportNames)
    \/ \E name \in ImportNames : MonitorEntry(name)

SpecImport == InitImport /\ [][NextImport]_vars

(***************************************************************************)
(* One download from its enqueue to its import: manual enqueue, tracker    *)
(* and monitor side by side on the job of one SABnzbd id                   *)
(***************************************************************************)
\* the job SABnzbd is still checking before it downloads it
QueueItemChecking ==
    [filename |-> "Wired 2024 06", status |-> "Checking", percentage |-> 0, timeleft |-> None]

FlowId == "SABnzbd_nzo_a"

\* the last time of the clock while the download is followed
FlowTime == 1

FlowTick == TickTo(FlowTime)

FlowPayloads == {pl \in Payloads : pl.result = ResultB /\ pl.metadata}

FlowOutcomes == {[kind |-> "ok", nzo_ids |-> <<FlowId>>]}

\* the snapshots of the tracker: the job is in the queue, in the history or
\* in neither
FlowSnapshots ==
    {<<EmptyMap, EmptyMap>>}
    \cup {<<[x \in {FlowId} |-> q], EmptyMap>> : q \in QueueItems \cup {QueueItemChecking}}
    \cup {<<EmptyMap, [x \in {FlowId} |-> h]>> : h \in HistoryItems}

FlowEnqueue == SabnzbdDownloadOf(FlowPayloads, FlowOutcomes)

FlowReconcile == TrackerReconcileOf(FlowSnapshots)

InitFlow ==
    /\ InitControl
    /\ call = NoCall
    /\ jobs = <<>>
    /\ past = Witnessed(<<>>, jobs)
    /\ now = 0
    /\ configured = TRUE
    /\ max_results = 1
    /\ auto_fail = FALSE
    /\ downloads = [n \in EntryNames |-> Absent]

NextFlow ==
    \/ FlowTick
    \/ FlowEnqueue
    \/ TrackerBegin
    \/ TrackerFetchFails
    \/ FlowReconcile
    \/ TrackerSweep
    \/ MonitorBegin
    \/ \E name \in EntryNames : MonitorEntry(name)
    \/ \E name \in EntryNames : SabCreates(name)

SpecFlow == InitFlow /\ [][NextFlow]_vars

(***************************************************************************)
(* The tracker and its auto-fail sweep over the job of one SABnzbd id that *)
(* manual enqueues create and upsert again                                 *)
(***************************************************************************)
InitSweep ==
    /\ InitControl
    /\ call = NoCall
    /\ jobs = <<>>
    /\ past = Untracked
    /\ now = 0
    /\ configured = TRUE
    /\ max_results = 1
    /\ auto_fail \in BOOLEAN
    /\ downloads = [n \in EntryNames |-> Absent]

NextSweep ==
    \/ Tick
    \/ FlowEnqueue
    \/ TrackerBegin
    \/ TrackerFetchFails
    \/ FlowReconcile
    \/ TrackerSweep

SpecSweep == InitSweep /\ [][NextSweep]_vars

(***************************************************************************)
(* The job a scan created for one result, up to its import or its failure, *)
(* with the auto-fail sweep of the tracker switched on                     *)
(***************************************************************************)
\* the scan has just enqueued ResultB; SABnzbd has not created the download
InitFrame ==
    /\ InitControl
    /\ call = NoCall
    /\ jobs = <<SeedQueued(ResultB, FlowId)>>
    /\ past = Witnessed(<<>>, jobs)
    /\ now = 0
    /\ configured = TRUE
    /\ max_results = 1
    /\ auto_fail = TRUE
    /\ downloads = [n \in EntryNames |-> Absent]

NextFrame ==
    \/ Tick
    \/ TrackerBegin
    \/ TrackerFetchFails
    \/ FlowReconcile
    \/ TrackerSweep
    \/ MonitorBegin
    \/ \E name \in EntryNames : MonitorEntry(name)
    \/ \E name \in EntryNames : SabCreates(name)

SpecFrame == InitFrame /\ [][NextFrame]_vars

(***************************************************************************)
(* The tracker over the job of one SABnzbd id, with every kind of status   *)
(* string the SABnzbd queue and history can report for it                  *)
(***************************************************************************)
\* slot["status"] of a queue slot: the states of SABnzbd, strings that match
\* two of the rules of _map_queue_status, the empty string and no status
RawQueueStatuses ==
    {"Downloading", "Paused", "Queued", "Fetching", "Checking", "Extracting", "QuickCheck",
     "Waiting", "paused download", "post paused", "pause queued", "Fetching NZB", "idle",
     "", None}

\* slot["status"] of a history slot
RawHistoryStatuses ==
    {"Completed", "completed", "Failed", "Failure", "Extracting", "Queued", "Fetching NZB",
     "", None}

RawQueueItems ==
    [filename : {"Wired 2024 06"}, status : RawQueueStatuses, percentage : {50},
     timeleft : {"0:05:00"}]

RawHistoryItems ==
    [name : {"Wired 2024 06", "Wired_06_2024"}, status : RawHistoryStatuses, completed : {2},
     fail_message : {"Repair failed"}]

\* the snapshots of the tracker: the job is in the queue, in the history or
\* in neither
RawSnapshots ==
    {<<EmptyMap, EmptyMap>>}
    \cup {<<[x \in {FlowId} |-> q], EmptyMap>> : q \in RawQueueItems}
    \cup {<<EmptyMap, [x \in {FlowId} |-> h]>> : h \in RawHistoryItems}

RawReconcile == TrackerReconcileOf(RawSnapshots)

\* a failed fetch, kept in call
RawFetchFails == TrackerFetchFailsAs([kind |-> "fetch_failed"])

RawSeeds ==
    {<<SeedQueued(ResultB, FlowId)>>, <<SeedDownloading(ResultB, FlowId)>>,
     <<SeedCompleted(ResultB, FlowId)>>}

InitRaw ==
    /\ InitControl
    /\ call = NoCall
    /\ jobs \in RawSeeds
    /\ past = Untracked
    /\ now = 0
    /\ configured = TRUE
    /\ max_results = 1
    /\ auto_fail \in BOOLEAN
    /\ downloads = [n \in EntryNames |-> Absent]

NextRaw ==
    \/ Tick
    \/ TrackerBegin
    \/ RawFetchFails
    \/ RawReconcile
    \/ TrackerSweep

SpecRaw == InitRaw /\ [][NextRaw]_vars

\* the timer of _run: asyncio.wait_for(..., timeout=poll_interval) ends, so
\* a cycle that can begin does begin
SpecRawFair == SpecRaw /\ WF_vars(TrackerBegin)

(***************************************************************************)
(* The issue parser alone: one call of parse_issue on a title              *)
(***************************************************************************)
\* the words a title is made of
TitleWords ==
    {Chars("202405"), Chars("202705"), Chars("052024"), Chars("2024"), Chars("5"),
     Chars("März"), Chars("Issue"), Chars("HQ")}

\* the names of the month table
TableNames == UNION {MONTH_NAMES[f] : f \in 1..12}

RECURSIVE Joined(_, _)
\* the words with the separator between them
Joined(ws, sep) ==
    IF Len(ws) = 1 THEN ws[1] ELSE ws[1] \o <<sep>> \o Joined(Tail(ws), sep)

\* release titles: with or without the magazine's name in front, up to
\* MaxWords words, and every month name before a year
ParseTitles ==
    LET bodies == {Joined(ws, sep) : ws \in UNION {[1..n -> TitleWords] : n \in 1..MaxWords},
                                     sep \in {" ", "."}}
                  \cup {name \o <<" ">> \o Chars("2024") : name \in TableNames}
    IN bodies \cup {Chars("Fernsehwoche") \o <<" ">> \o body : body \in bodies}

MagazineTitles == {None, "Fernsehwoche"}

Languages == {Chars("en"), Chars("de"), Chars("es")}

\* datetime.datetime.utcnow().year at the call
UtcYears == {2025, 2026}

InitParse ==
    /\ InitControl
    /\ call \in [kind : {"title"}, title : ParseTitles, magazine_title : MagazineTitles,
                 language : Languages, utc_year : UtcYears]
    /\ jobs = <<>>
    /\ past = Untracked
    /\ now = 0
    /\ configured = TRUE
    /\ max_results = 1
    /\ auto_fail = FALSE
    /\ downloads = [n \in EntryNames |-> Absent]

\* parse_issue(title, magazine_title, language=magazine_language)
CallParseIssue ==
    /\ call.kind = "title"
    /\ call' = [kind |-> "parse_issue", title |-> call.title,
                magazine_title |-> call.magazine_title, language |-> call.language,
                utc_year |-> call.utc_year,
                metadata |-> ParseIssue(call.title, call.magazine_title, call.language,
                                        call.utc_year)]
    /\ UNCHANGED <<jobs, past, now, cfgVars, schedVars, trackVars, monVars>>

NextParse == CallParseIssue

SpecParse == InitParse /\ [][NextParse]_vars

(***************************************************************************)
(* Shutdown: the three loops at work, AutoDownloader.stop, and the         *)
(* shutdown_event of the application                                       *)
(***************************************************************************)
\* AutoDownloader.stop: the task of _run is cancelled where it waits (for
\* the lock, for search_magazines or enqueue_url, for the poll interval);
\* CancelledError leaves `async with self._scan_lock` and ends the task
Stop ==
    /\ Quiet
    /\ spc[LoopTask] # "off"
    /\ spc' = [spc EXCEPT ![LoopTask] = "off"]
    /\ scan_lock' = IF spc[LoopTask] \in {"search", "enqueue"} THEN FALSE ELSE scan_lock
    /\ sel' = [sel EXCEPT ![LoopTask] = <<>>]
    /\ enq' = [enq EXCEPT ![LoopTask] = 0]
    /\ jidx' = [jidx EXCEPT ![LoopTask] = EmptyMap]
    /\ UNCHANGED <<call, jobs, past, now, cfgVars, ret, trackVars, monVars>>

\* shutdown_event, first await: DownloadMonitor.stop cancels the task of the
\* monitor in its wait and awaits it
ShutdownMonitor ==
    /\ Quiet
    /\ call.kind \notin {"stopping", "shutdown"}
    /\ mpc' = "off"
    /\ entries' = {}
    /\ call' = [kind |-> "stopping"]
    /\ UNCHANGED <<jobs, past, now, cfgVars, schedVars, trackVars, downloads>>

\* shutdown_event, second await: DownloadTracker.stop cancels the task of
\* the tracker in its wait or in its fetch and awaits it; shutdown_event
\* returns
ShutdownTracker ==
    /\ Quiet
    /\ call.kind = "stopping"
    /\ tpc' = "off"
    /\ call' = [kind |-> "shutdown"]
    /\ UNCHANGED <<jobs, past, now, cfgVars, schedVars, queue_map, history_map, monVars>>

\* the one scan result of the magazine while the application runs
StopSearchDone == SearchDoneOf(LoopTask, {<<>>, <<ResultA>>}, Magazines, FALSE)

\* startup_event has started the tracker and the monitor; a download of the
\* job of ResultB lies in the downloads directory
InitStop ==
    /\ InitControl
    /\ call = NoCall
    /\ jobs = <<SeedQueued(ResultB, FlowId)>>
    /\ past = Untracked
    /\ now = 0
    /\ configured = TRUE
    /\ max_results = 1
    /\ auto_fail = FALSE
    /\ downloads \in [EntryNames -> {Absent, [mtime |-> 0, kids |-> {}]}]

NextStop ==
    \/ Start
    \/ Acquire(LoopTask)
    \/ StopSearchDone
    \/ SteadyEnqueueStep
    \/ LoopWake
    \/ Stop
    \/ TrackerBegin
    \/ TrackerFetchFails
    \/ FlowReconcile
    \/ TrackerSweep
    \/ MonitorBegin
    \/ \E name \in EntryNames : MonitorEntry(name)
    \/ ShutdownMonitor
    \/ ShutdownTracker

SpecStop == InitStop /\ [][NextStop]_vars

(***************************************************************************)
(* Two releases of one magazine: parse_issue of each title, then the       *)
(* IssueIdentity of the search result that carries the parsed fields       *)
(***************************************************************************)
PairYears == {Chars("2024"), <<"2", "0", "2", "5">>}

PairNumbers == {Chars("5"), <<"6">>}

\* what follows the magazine's name in a release title
PairBodies ==
    {y \o <<" ">> \o n : y \in PairYears, n \in PairNumbers}
    \cup {n \o <<" ">> \o y : y \in PairYears, n \in PairNumbers}
    \cup {y \o <<" ">> \o Chars("Issue") \o <<" ">> \o n : y \in PairYears, n \in PairNumbers}
    \cup {y \o <<"0">> \o n : y \in PairYears, n \in PairNumbers}
    \cup {BASE_MONTH_TABLE[f][1] \o <<" ">> \o y : f \in {5, 6}, y \in PairYears}

PairTitles == {Chars("Fernsehwoche") \o <<" ">> \o body : body \in PairBodies}

InitPair ==
    /\ InitControl
    /\ call \in [kind : {"titles"}, first : PairTitles, second : PairTitles,
                 magazine_title : {"Fernsehwoche"}, language : {Chars("de")},
                 utc_year : {2026}]
    /\ jobs = <<>>
    /\ past = Untracked
    /\ now = 0
    /\ configured = TRUE
    /\ max_results = 1
    /\ auto_fail = FALSE
    /\ downloads = [n \in EntryNames |-> Absent]

\* _parse_torznab_response hands the parsed fields to the SearchResult, and
\* _select_candidates takes its _issue_identifier
ParsedResultKey(title, magazine_title, metadata) ==
    IF metadata.found
    THEN IssueIdentifierOn(Spelling(magazine_title), metadata.issue_code, metadata.year,
                           metadata.month, metadata.issue_number, title)
    ELSE IssueIdentifierOn(Spelling(magazine_title), <<>>, NoInt, NoInt, NoInt, title)

\* two items of a Torznab response for the magazine
CallParsePair ==
    /\ call.kind = "titles"
    /\ \E m1 \in {ParseIssue(call.first, call.magazine_title, call.language, call.utc_year)} :
       \E m2 \in {ParseIssue(call.second, call.magazine_title, call.language, call.utc_year)} :
          call' = [kind |-> "parse_pair", first |-> call.first, second |-> call.second,
                   magazine_title |-> call.magazine_title,
                   metadata |-> <<m1, m2>>,
                   keys |-> <<ParsedResultKey(call.first, call.magazine_title, m1),
                              ParsedResultKey(call.second, call.magazine_title, m2)>>]
    /\ UNCHANGED <<jobs, past, now, cfgVars, schedVars, trackVars, monVars>>

NextPair == CallParsePair

SpecPair == InitPair /\ [][NextPair]_vars

(***************************************************************************)
(* _issue_identifier as a function of its six arguments                    *)
(***************************************************************************)
KeyMagazines == {None, "", "Wired"}

KeyCodes == {None, "", "20240006"}

KeyYears == {NoInt, 2024}

KeyMonths == {NoInt, 6}

KeyNumbers == {NoInt, 6}

KeyTitles == {None, "", "WIRED.2024.06", "Edge Extra "}

InitKey ==
    /\ InitControl
    /\ call \in [kind : {"fields"}, magazine_title : KeyMagazines, issue_code : KeyCodes,
                 issue_year : KeyYears, issue_month : KeyMonths, issue_number : KeyNumbers,
                 fallback_title : KeyTitles]
    /\ jobs = <<>>
    /\ past = Untracked
    /\ now = 0
    /\ configured = TRUE
    /\ max_results = 1
    /\ auto_fail = FALSE
    /\ downloads = [n \in EntryNames |-> Absent]

\* _issue_identifier(magazine_title, issue_code, issue_year, issue_month,
\* issue_number, fallback_title)
CallIssueIdentifier ==
    /\ call.kind = "fields"
    /\ call' = [call EXCEPT !.kind = "issue_identifier"]
                 @@ [key |-> IssueIdentifier(call.magazine_title, call.issue_code,
                                             call.issue_year, call.issue_month,
                                             call.issue_number, call.fallback_title)]
    /\ UNCHANGED <<jobs, past, now, cfgVars, schedVars, trackVars, monVars>>

NextKey == CallIssueIdentifier

SpecKey == InitKey /\ [][NextKey]_vars

(***************************************************************************)
(* Properties of selection (SpecSelect) and of the scan lock (SpecSched)   *)
(***************************************************************************)
\* C1: once the status of a job is failed or moved, no step changes the
\* status of that job again.
C1_TerminalStatusIsFinal ==
    [][\A i \in 1..Len(jobs) :
          jobs[i].status \in TerminalStatuses =>
              (i <= Len(jobs') /\ jobs'[i].status = jobs[i].status)]_vars

\* C2: what a scan selects never holds two results of the same issue
\* identity, whatever max_results_per_scan is.
C2_OneSelectionPerIdentity ==
    \A p \in Scanners : \A i \in 1..Len(sel[p]) : \A j \in 1..Len(sel[p]) :
        i # j => sel[p][i].issue_key # sel[p][j].issue_key

\* the step in which scanner p runs _select_candidates and selects something
Selecting(p) == spc[p] = "search" /\ spc'[p] = "enqueue"

\* some persisted job with a magazine title has the identity of the result
\* and an active status, or has its identity and its link
BlockedByJobs(result, js) ==
    \E i \in 1..Len(js) :
        /\ js[i].magazine_title # None
        /\ JobKey(js[i]) # NoKey
        /\ JobKey(js[i]) = ResultKey(result)
        /\ \/ Lower(js[i].status) \in ACTIVE_JOB_STATUSES
           \/ js[i].link = result.link

\* C3: a scan never selects a result whose identity has an active job in the
\* table the index is built from, or a job with the exact link of the result.
C3_NeverSelectsActiveOrKnownLink ==
    [][\A p \in Scanners :
          Selecting(p) =>
              \A k \in 1..Len(sel'[p]) : ~BlockedByJobs(sel'[p][k].result, jobs)]_vars

\* a scan selected a result of an identity that has a failed job under
\* another link
C3_Witness ==
    \E p \in Scanners :
        /\ spc[p] = "enqueue"
        /\ enq[p] = 0
        /\ \E i \in 1..Len(jobs) :
              /\ JobKey(jobs[i]) = ResultKey(Head(sel[p]).result)
              /\ jobs[i].status = "failed"
              /\ jobs[i].link # Head(sel[p]).result.link

\* scanner p is inside the scan body of _sync_once
InScanBody(p) == spc[p] \in {"search", "enqueue"}

\* C6: at most one caller is inside the scan body of _sync_once at a time.
C6_SingleFlight == Cardinality({p \in Scanners : InScanBody(p)}) <= 1

\* one caller is in the scan body while another waits for the lock
C6_Witness ==
    \E p \in Scanners : \E q \in Scanners \ {p} :
        InScanBody(p) /\ spc[q] = "acquire" /\ scan_lock

\* the step in which scan_now call m begins
Calling(m) == spc[m] = "idle" /\ spc'[m] # "idle"

\* the step in which scan_now call m ends
Ending(m) == spc[m] # "done" /\ spc'[m] = "done"

\* call m ends as a no-op: (False, 0), no job touched, no scan state touched
NoOp(m) ==
    /\ ret'[m] = Returned(FALSE, 0)
    /\ jobs' = jobs
    /\ UNCHANGED <<scan_lock, sel, enq, jidx>>

\* call m ends a scan it ran, with (True, enqueued)
RanScan(m) ==
    /\ InScanBody(m)
    /\ ret'[m].kind = "returned"
    /\ ret'[m].started
    /\ ret'[m].enqueued \in
          IF spc[m] = "search" THEN {0}
          ELSE IF jobs' = jobs THEN {enq[m], enq[m] + 1} ELSE {enq[m] + 1}

\* C7, as claimed: a scan_now call made while a scan is in progress returns
\* (False, 0) and changes nothing; any other call runs one scan and returns
\* (True, number enqueued).
C7_ReturnsTrueUnlessInProgress ==
    [][\A m \in Manuals :
          /\ (Calling(m) /\ scan_lock) => (Ending(m) /\ NoOp(m))
          /\ (Calling(m) /\ ~scan_lock) => ~Ending(m)
          /\ (Ending(m) /\ ~Calling(m)) => RanScan(m)]_vars

\* C7, amended: a scan_now call first starts the loop task when it is not
\* running.  Made while a scan is in progress it returns (False, 0) without
\* searching, enqueuing or changing a job.  Made when no scan is in progress
\* it enters the scan body, at once or behind callers already waiting: with
\* SABnzbd not configured it raises SabnzbdNotConfigured without searching
\* or changing a job, otherwise it runs one scan and returns
\* (True, number enqueued).
C7_ReturnsTrueOrRaises ==
    [][\A m \in Manuals :
          /\ Calling(m) => spc'[LoopTask] # "off"
          /\ (Calling(m) /\ scan_lock) => (Ending(m) /\ NoOp(m))
          /\ (Calling(m) /\ ~scan_lock /\ configured) =>
                (spc'[m] \in {"search", "acquire"} /\ jobs' = jobs)
          /\ (Ending(m) /\ ~(Calling(m) /\ scan_lock)) =>
                IF configured
                THEN RanScan(m)
                ELSE /\ spc[m] \in {"idle", "acquire"}
                     /\ ret'[m] = Raised
                     /\ jobs' = jobs]_vars

\* a scan_now call came back with (False, 0) while the loop task is
\* enqueuing
C7_Witness ==
    \E m \in Manuals :
        spc[m] = "done" /\ ret[m] = Returned(FALSE, 0) /\ spc[LoopTask] = "enqueue"

(***************************************************************************)
(* Properties of a monitor scan whose import raises (SpecImport)           *)
(***************************************************************************)
\* the ways the staging move or process_download_entry of one entry raises
ImportFailures == {"stage_fails", "fails_early", "fails_mid", "fails_late"}

\* C30: when the staging move or the import of one entry of a monitor scan
\* raises, the job matched to the entry is not marked moved, and the scan
\* goes on with every entry it has not handled yet: it drops the failing
\* entry alone, ends only when no entry is left, and hands each entry that
\* is ready to _move_entry.
C30_FailureStopsOneEntryOnly ==
    [][(mpc = "scan" /\ entries' # entries) =>
          /\ call'.handed = call'.ready
          /\ mpc' = "idle" => entries' = {}
          /\ call'.outcome \in ImportFailures =>
                 /\ jobs'[call'.job].status # "moved"
                 /\ entries' = entries \ {call'.name}
                 /\ mpc' = IF entries' = {} THEN "idle" ELSE "scan"]_vars

\* the import of one entry raised after its job was set to processing, and
\* the scan still holds a ready entry
C30_Witness ==
    /\ mpc = "scan"
    /\ call.kind = "scan_entry"
    /\ call.outcome = "fails_mid"
    /\ jobs[call.job].status = "processing"
    /\ \E n \in entries : EntryIsReady(downloads[n], SettleSeconds, now)

\* C40: when the staging move or the import of a matched entry raises, the
\* status of the job after the round is the status it had before, and the
\* entry is still in the downloads directory, where a later scan finds it.
C40_FailedImportLeavesJobAndEntry ==
    [][(mpc = "scan" /\ entries' # entries /\ call'.outcome \in ImportFailures) =>
          /\ jobs'[call'.job].status = jobs[call'.job].status
          /\ downloads'[call'.name] = downloads[call'.name]]_vars

Eligible(r) == Selects(r, jidx[call.scanner], LoadGuards(Shelf))

RankedBy(Key(_)) ==
    call.kind = "select" =>
        /\ \A i \in 1..Len(call.results) : \A j \in (i+1)..Len(call.results) :
               ~TupleLess(Key(call.results[i]), Key(call.results[j]))
        /\ (Max(1, max_results) = 1 /\ call.candidates # <<>>) =>
               /\ Len(call.candidates) = 1
               /\ \E i \in 1..Len(call.results) : call.results[i] = call.candidates[1].result
               /\ Eligible(call.candidates[1].result)
               /\ \A i \in 1..Len(call.results) :
                      Eligible(call.results[i]) =>
                          ~TupleLess(Key(call.candidates[1].result), Key(call.results[i]))

\* C28 as stated: the results handed to the selection are in descending
\* order of (issue year, issue month, issue day, issue number, published
\* time), and with a cap of 1 the candidate is the eligible result with the
\* greatest such tuple.
C28_SortedByIssueTuple == RankedBy(IssueTuple)

\* the tuple of a result with an issue year; without one, the year, month
\* and day of its published time, 0 and the published time; with neither,
\* (0, 0, 0, issue number, 0)
RankOf(r) ==
    IF r.issue_year # NoInt /\ r.issue_year # 0 THEN IssueTuple(r)
    ELSE IF r.published # NoInt
         THEN <<r.published \div 10000, (r.published \div 100) % 100, r.published % 100,
                0, r.published>>
         ELSE <<0, 0, 0, SafeInt(r.issue_number), 0>>

\* C28, amended: the results handed to the selection are in descending
\* order of that tuple for the results with an issue year and of the date
\* of the published time for those without, and with a cap of 1 the
\* candidate is the eligible result that is greatest in this order.
C28_SortedByIssueOrPublishedDate == RankedBy(RankOf)

\* under a cap of 1 a scan selected a result without issue year, ahead of
\* an eligible result with one
C28_Witness ==
    /\ call.kind = "select"
    /\ Max(1, max_results) = 1
    /\ call.candidates # <<>>
    /\ call.candidates[1].result.issue_year = NoInt
    /\ \E i \in 1..Len(call.results) :
          call.results[i].issue_year # NoInt /\ Eligible(call.results[i])

(***************************************************************************)
(* Properties of the enqueue loop of a scan (SpecScan)                     *)
(***************************************************************************)
\* the step in which the scan of caller m handles its next candidate
Enqueuing(m) == spc[m] = "enqueue" /\ sel'[m] # sel[m]

InFlightRows(js, k) ==
    {i \in IndexedJobs(js) : JobKey(js[i]) = k /\ js[i].status \notin TerminalStatuses}

\* C35: a scan never takes up for enqueueing a search result whose
\* IssueIdentity has a persisted job in a non-terminal status, `paused` and
\* the statuses passed through from SABnzbd included.
C35_NoEnqueueOfInFlightIssue ==
    [][\A p \in Scanners :
          (spc[p] = "search" /\ spc'[p] = "enqueue") =>
              \A n \in 1..Len(sel'[p]) : InFlightRows(jobs, sel'[p][n].issue_key) = {}]_vars

\* the row of js that upsert_download_job wrote for the result
RowsOfResult(js, r) ==
    {i \in 1..Len(js) :
        /\ js[i].link = r.link
        /\ js[i].title = r.title
        /\ js[i].magazine_title = r.magazine_title
        /\ <<js[i].issue_code, js[i].issue_label, js[i].issue_year, js[i].issue_month,
             js[i].issue_number>>
               = <<r.issue_code, r.issue_label, r.issue_year, r.issue_month, r.issue_number>>}

\* C37: every candidate a scan counts as enqueued has, from the step that
\* counted it, at least one DownloadJob row with its link and metadata, also
\* when enqueue_url returned an empty list of nzo_ids.
C37_CountedCandidateHasRow ==
    [][\A p \in Scanners :
          (/\ spc[p] = "enqueue"
           /\ \/ enq'[p] = enq[p] + 1
              \/ p \in Manuals /\ ret'[p] = Returned(TRUE, enq[p] + 1))
          => RowsOfResult(jobs', Head(sel[p]).result) # {}]_vars

(***************************************************************************)
(* Properties of the tracker (SpecTrack)                                   *)
(***************************************************************************)
\* the step in which a tracker cycle runs its reconciliation loop
Reconciling == tpc = "fetch" /\ tpc' = "sweep"

\* the step in which a tracker cycle runs _auto_fail_jobs
Sweeping == tpc = "sweep" /\ tpc' = "idle"

\* C8: neither the reconciliation loop nor the auto-fail sweep of a tracker
\* cycle changes a field of a job that is failed or moved when the step
\* begins, whether or not its SABnzbd id is in the snapshots of the cycle.
C8_TrackerSkipsTerminalJobs ==
    [][(Reconciling \/ Sweeping) =>
          \A i \in 1..Len(jobs) :
              jobs[i].status \in TerminalStatuses => jobs'[i] = jobs[i]]_vars

\* the reconciliation loop has run at a later time than the last change of a
\* failed or moved job whose id is in the queue or history snapshot
C8_Witness ==
    /\ tpc = "sweep"
    /\ \E i \in 1..Len(jobs) :
          /\ jobs[i].status \in TerminalStatuses
          /\ jobs[i].sabnzbd_id \in DOMAIN queue_map \cup DOMAIN history_map
          /\ jobs[i].updated_at < now

\* C9: with auto-fail enabled and a positive threshold, the sweep of a
\* tracker cycle turns every downloading job whose last_seen is older than
\* the threshold into failed, and leaves alone every job whose last_seen is
\* within the threshold (last_seen is the time of the last tracker update).
C9_AutoFailByLastSeen ==
    [][(Sweeping /\ auto_fail /\ AutoFailMinutes > 0) =>
          \A i \in 1..Len(jobs) :
              /\ (/\ jobs[i].status = "downloading"
                  /\ jobs[i].last_seen # NoInt
                  /\ now - jobs[i].last_seen > AutoFailMinutes) => jobs'[i].status = "failed"
              /\ (/\ jobs[i].last_seen # NoInt
                  /\ now - jobs[i].last_seen < AutoFailMinutes) => jobs'[i] = jobs[i]]_vars

\* a sweep has just failed a stale job that was at 50% and has left a job
\* alone that the same cycle saw downloading
C9_Witness ==
    /\ tpc = "idle"
    /\ auto_fail
    /\ \E i \in 1..Len(jobs) : \E j \in 1..Len(jobs) :
          /\ jobs[i].status = "failed"
          /\ jobs[i].message = "Auto-failed without SABnzbd progress."
          /\ jobs[i].progress = 50
          /\ jobs[i].updated_at = now
          /\ jobs[j].status = "downloading"
          /\ jobs[j].last_seen = now

\* the rows the reconciliation loop of this step matches: active rows whose
\* SABnzbd id is in the queue or history snapshot the step works with
Matched ==
    {i \in 1..Len(jobs) :
        /\ jobs[i].status \notin {"failed", "moved"}
        /\ Truthy(jobs[i].sabnzbd_id)
        /\ jobs[i].sabnzbd_id \in DOMAIN queue_map' \cup DOMAIN history_map'}

\* a row without its two stamps
Unstamped(job) == [job EXCEPT !.last_seen = NoInt, !.updated_at = NoInt]

\* C17: whenever a tracker cycle finds the SABnzbd id of a non-terminal job
\* in its queue or history snapshot, last_seen of the job is set to the time
\* of the cycle, whether or not another field of the job changed.
C17_LastSeenAlwaysRefreshed ==
    [][Reconciling => \A i \in Matched : jobs'[i].last_seen = now]_vars

\* C17, as update_download_job_status has it: last_seen (and updated_at) of
\* a matched job is set to the time of the cycle when the cycle changed
\* another field of the job; when the snapshot repeats what the row already
\* holds, the row keeps all its fields, last_seen among them.
C17_LastSeenRefreshedOnChange ==
    [][Reconciling =>
          \A i \in Matched :
              IF Unstamped(jobs'[i]) # Unstamped(jobs[i])
              THEN jobs'[i].last_seen = now /\ jobs'[i].updated_at = now
              ELSE jobs'[i] = jobs[i]]_vars

\* the reconciliation loop has matched a downloading job in its queue
\* snapshot at a later time than the one last_seen holds, and left it
C17_Witness ==
    /\ tpc = "sweep"
    /\ \E i \in 1..Len(jobs) :
          /\ jobs[i].status = "downloading"
          /\ jobs[i].sabnzbd_id \in DOMAIN queue_map
          /\ queue_map[jobs[i].sabnzbd_id].status = "Downloading"
          /\ jobs[i].last_seen # NoInt
          /\ jobs[i].last_seen < now

\* the rows of this step that are active and whose SABnzbd id is in the
\* queue snapshot and in the history snapshot
InBoth ==
    {i \in Matched : jobs[i].sabnzbd_id \in DOMAIN queue_map' \cap DOMAIN history_map'}

\* C21: when the SABnzbd id of a non-terminal job is in the queue snapshot
\* and in the history snapshot of a tracker cycle, the reconciliation loop
\* updates the job from the queue item alone: status, progress, message and
\* content name are those of the queue item, and nothing of the history
\* item (its completion time, its status) reaches the job.
C21_QueueTakesPrecedence ==
    [][Reconciling =>
          \A i \in InBoth :
              LET queue_item == queue_map'[jobs[i].sabnzbd_id]
              IN /\ jobs'[i].status = MapQueueStatus(queue_item.status)
                 /\ jobs'[i].sab_status = queue_item.status
                 /\ jobs'[i].progress = queue_item.percentage
                 /\ jobs'[i].message =
                        IF ~Truthy(queue_item.timeleft) THEN jobs[i].message
                        ELSE IF jobs'[i].status \in {"queued", "downloading"}
                             THEN Remaining(queue_item.timeleft)
                        ELSE queue_item.timeleft
                 /\ jobs'[i].content_name = queue_item.filename
                 /\ jobs'[i].completed_at = jobs[i].completed_at]_vars

\* the reconciliation loop has just set a job to paused from its queue item
\* while the history snapshot of the cycle lists the same id as completed
C21_Witness ==
    /\ tpc = "sweep"
    /\ now > 0
    /\ \E i \in 1..Len(jobs) :
          /\ jobs[i].sabnzbd_id \in DOMAIN queue_map \cap DOMAIN history_map
          /\ queue_map[jobs[i].sabnzbd_id].status = "Paused"
          /\ history_map[jobs[i].sabnzbd_id].status = "Completed"
          /\ jobs[i].status = "paused"
          /\ jobs[i].last_seen = now

\* C24: a tracker cycle leaves a job whose SABnzbd id is in neither
\* snapshot as it is: the reconciliation loop changes no field of it, and
\* the sweep of the cycle fails it only for its age, that is with auto-fail
\* enabled, a watched status and a reference time at least the threshold
\* old; a job the sweep does not fail keeps every field.
C24_AbsentJobUntouched ==
    [][/\ Reconciling =>
             \A i \in 1..Len(jobs) :
                 jobs[i].sabnzbd_id \notin DOMAIN queue_map' \cup DOMAIN history_map' =>
                     jobs'[i] = jobs[i]
       /\ Sweeping =>
             \A i \in 1..Len(jobs) :
                 jobs[i].sabnzbd_id \notin DOMAIN queue_map \cup DOMAIN history_map =>
                     \/ jobs'[i] = jobs[i]
                     \/ /\ jobs'[i].status = "failed"
                        /\ auto_fail
                        /\ jobs[i].status \in WatchedStatuses
                        /\ now - AutoFailReference(jobs[i]) >= AutoFailMinutes]_vars

\* the reconciliation loop has updated one job from its snapshots and has
\* passed over a downloading job whose id is in neither of them
C24_Witness ==
    /\ tpc = "sweep"
    /\ now > 0
    /\ \E i \in 1..Len(jobs) : \E j \in 1..Len(jobs) :
          /\ jobs[i].status = "downloading"
          /\ jobs[i].sabnzbd_id \notin DOMAIN queue_map \cup DOMAIN history_map
          /\ jobs[i].last_seen = 0
          /\ jobs[j].sabnzbd_id \in DOMAIN queue_map \cup DOMAIN history_map
          /\ jobs[j].last_seen = now

(***************************************************************************)
(* Properties of the status mapping of the tracker (SpecRaw)               *)
(***************************************************************************)
\* the matched rows of this step whose SABnzbd id is in the queue snapshot
InQueue == {i \in Matched : jobs[i].sabnzbd_id \in DOMAIN queue_map'}

\* the matched rows of this step whose SABnzbd id is in the history snapshot
\* only
OnlyInHistory == {i \in Matched : jobs[i].sabnzbd_id \notin DOMAIN queue_map'}

\* the spelling of a raw status in lower case
Lowered(raw) == LowerSeq(Chars(raw))

\* a spelling with every space replaced by an underscore
Underscored(cs) == [k \in 1..Len(cs) |-> IF cs[k] = " " THEN "_" ELSE cs[k]]

\* the substring rules of the queue, in their order, on a raw status; the
\* result is a spelling, `otherwise` the spelling of the last rule
QueueRule(raw, otherwise) ==
    IF Contains(Lowered(raw), <<"d", "o", "w", "n">>) THEN Chars("downloading")
    ELSE IF \/ Contains(Lowered(raw), <<"p", "o", "s", "t">>)
            \/ Contains(Lowered(raw), <<"c", "h", "e", "c", "k">>)
            \/ Contains(Lowered(raw), <<"e", "x", "t", "r", "a", "c", "t">>)
         THEN Chars("processing")
    ELSE IF Contains(Lowered(raw), <<"p", "a", "u", "s", "e">>) THEN Chars("paused")
    ELSE IF \/ Contains(Lowered(raw), <<"q", "u", "e", "u", "e", "d">>)
            \/ Contains(Lowered(raw), <<"w", "a", "i", "t", "i", "n", "g">>)
         THEN Chars("queued")
    ELSE otherwise

\* C22, as claimed: the status of a job found in the queue is given by the
\* substring rules on the raw status string (letter case aside), and when no
\* rule applies it is the raw string with spaces replaced by underscores.
C22_OtherwiseRawString ==
    [][Reconciling =>
          \A i \in InQueue :
              LET raw == queue_map'[jobs[i].sabnzbd_id].status
              IN raw # None =>
                    Chars(jobs'[i].status) = QueueRule(raw, Underscored(Chars(raw)))]_vars

\* C22, amended: a missing or empty raw status gives queued; otherwise the
\* rules are applied in their order to the raw status in lower case (down;
\* post, check or extract; pause; queued or waiting), and when no rule
\* applies the job status is the lower-cased raw string with spaces replaced
\* by underscores.
C22_OtherwiseLoweredString ==
    [][Reconciling =>
          \A i \in InQueue :
              LET raw == queue_map'[jobs[i].sabnzbd_id].status
              IN Chars(jobs'[i].status) =
                    IF ~Truthy(raw) THEN Chars("queued")
                    ELSE QueueRule(raw, Underscored(Lowered(raw)))]_vars

\* the reconciliation loop has just mapped the raw status "Fetching NZB" of
\* a queue item, which no rule applies to
C22_Witness ==
    /\ tpc = "sweep"
    /\ \E i \in 1..Len(jobs) :
          /\ jobs[i].sabnzbd_id \in DOMAIN queue_map
          /\ queue_map[jobs[i].sabnzbd_id].status = "Fetching NZB"
          /\ jobs[i].status = "fetching_nzb"
          /\ jobs[i].last_seen = now

\* what a history item makes of a job, given the spelling of the status of
\* a raw status that is neither completed nor failed / failure
HistoryRule(old, new, item, otherwise) ==
    /\ IF Lowered(item.status) = Chars("completed")
       THEN /\ new.status = "completed"
            /\ new.progress = 100
            /\ new.message = "Awaiting import into library"
       ELSE /\ IF Lowered(item.status) \in {Chars("failed"), Chars("failure")}
               THEN new.status = "failed"
               ELSE Chars(new.status) = otherwise
            /\ new.progress = old.progress
            /\ new.message = item.fail_message
    /\ new.content_name = item.name
    /\ new.completed_at = item.completed

\* C23, as claimed: for a non-terminal job found in the history snapshot
\* only, raw status completed (letter case aside) gives status completed,
\* progress 100 and the awaiting-import message; failed or failure gives
\* failed; any other raw status becomes the job status as it is; content
\* name and completion time are those of the history item.
C23_OtherStatusPassedThrough ==
    [][Reconciling =>
          \A i \in OnlyInHistory :
              LET item == history_map'[jobs[i].sabnzbd_id]
              IN item.status # None =>
                    HistoryRule(jobs[i], jobs'[i], item, Chars(item.status))]_vars

\* C23, amended: a missing or empty raw status counts as completed; the raw
\* status is compared in lower case; any other raw status becomes the job
\* status in lower case with spaces replaced by underscores.  Completed
\* gives progress 100 and the awaiting-import message, every other status
\* keeps the progress and takes the fail message of the item; content name
\* and completion time are those of the history item.
C23_OtherStatusLowered ==
    [][Reconciling =>
          \A i \in OnlyInHistory :
              LET item == history_map'[jobs[i].sabnzbd_id]
              IN IF ~Truthy(item.status)
                 THEN HistoryRule(jobs[i], jobs'[i], [item EXCEPT !.status = "completed"], <<>>)
                 ELSE HistoryRule(jobs[i], jobs'[i], item, Underscored(Lowered(item.status)))]_vars

\* the reconciliation loop has just completed a job from a history item,
\* with the name and the completion time of the item
C23_Witness ==
    /\ tpc = "sweep"
    /\ \E i \in 1..Len(jobs) :
          /\ jobs[i].sabnzbd_id \in DOMAIN history_map \ DOMAIN queue_map
          /\ history_map[jobs[i].sabnzbd_id].status = "Completed"
          /\ history_map[jobs[i].sabnzbd_id].name = "Wired_06_2024"
          /\ jobs[i].status = "completed"
          /\ jobs[i].progress = 100
          /\ jobs[i].content_name = "Wired_06_2024"
          /\ jobs[i].completed_at = 2
          /\ jobs[i].last_seen = now

\* the step in which the fetch of a tracker cycle fails
FetchFailing == tpc = "fetch" /\ tpc' = "idle"

\* C25: a cycle whose fetch_queue or fetch_history fails changes no field of
\* any job, and after it the tracker begins its next cycle (a cycle has
\* something to fetch for as long as a job is active, and the jobs that were
\* active before the failed fetch still are).
C25_FailedFetchSkipsCycle ==
    /\ [][FetchFailing => jobs' = jobs]_vars
    /\ ((call.kind = "fetch_failed" /\ tpc = "idle" /\ ListActiveDownloadJobs(jobs) # {})
           ~> (tpc = "fetch"))

\* after a cycle whose fetch failed, a later cycle has reconciled the job
\* with a stale job in the table that a sweep would have failed
C25_Witness ==
    /\ call.kind = "fetch_failed"
    /\ tpc = "sweep"
    /\ auto_fail
    /\ \E i \in 1..Len(jobs) :
          /\ jobs[i].status \in WatchedStatuses
          /\ jobs[i].last_seen # NoInt
          /\ now - jobs[i].last_seen >= AutoFailMinutes

(***************************************************************************)
(* Properties of _passes_guard (SpecGuard)                                 *)
(***************************************************************************)
\* the title of the result holds every token of the guard
HasGuardTokens(result, guard) ==
    \A tok \in guard.tokens :
        tok \in NormalizeTextTokens(IF result.title = None THEN "" ELSE result.title)

\* C10: for a guard with min_year and min_issue both set, a result of an
\* earlier year is rejected; one of the year min_year with an issue number
\* below min_issue is rejected; one of the year min_year with an issue number
\* above min_issue passes the threshold check, so that it is accepted when
\* its title holds the tokens of the guard; one of a later year is accepted
\* whatever its issue number.
C10_ThresholdCheck ==
    (call.kind = "passes_guard" /\ call.guard.min_year # NoInt /\ call.guard.min_issue # NoInt) =>
        LET y == call.result.issue_year
            n == call.result.issue_number
            g == call.guard
        IN /\ (y # NoInt /\ y < g.min_year) => ~call.passed
           /\ (y = g.min_year /\ n # NoInt /\ n < g.min_issue) => ~call.passed
           /\ (y = g.min_year /\ n > g.min_issue) =>
                 (call.passed <=> HasGuardTokens(call.result, g))
           /\ y > g.min_year => call.passed

\* the guard 2024/5 accepted the first issue of 2025
C10_Witness ==
    /\ call.kind = "passes_guard"
    /\ call.guard.min_year = 2024
    /\ call.guard.min_issue = 5
    /\ call.result.issue_year = 2025
    /\ call.result.issue_number = 1
    /\ call.passed

\* C11: every result that passes a guard has a normalized title holding
\* every token of the guard, whatever min_year / min_issue of the guard and
\* whatever year / issue number of the result.
C11_PassedHoldsGuardTokens ==
    (call.kind = "passes_guard" /\ call.passed) => HasGuardTokens(call.result, call.guard)

\* C29: when the guard sets both min_year and min_issue, a result whose
\* issue year equals min_year and whose issue number equals min_issue is
\* rejected: only a higher issue number is taken in the year of the guard.
C29_SinceIssueItselfRejected ==
    (/\ call.kind = "passes_guard"
     /\ call.guard.min_year # NoInt
     /\ call.guard.min_issue # NoInt
     /\ call.result.issue_year = call.guard.min_year
     /\ call.result.issue_number = call.guard.min_issue) => ~call.passed

(***************************************************************************)
(* Properties of the job store under upsert_download_job (SpecUpsert)      *)
(***************************************************************************)
\* C4: after any sequence of upsert_download_job calls the table holds at
\* most one row per non-empty SABnzbd id.
C4_OneRowPerExternalId ==
    \A i \in 1..Len(jobs) : \A j \in 1..Len(jobs) :
        (i # j /\ Truthy(jobs[i].sabnzbd_id)) => jobs[i].sabnzbd_id # jobs[j].sabnzbd_id

\* an upsert found the row of its id in a table of several rows
C4_Witness ==
    /\ call.kind = "update"
    /\ Len(jobs) >= 2
    /\ jobs[call.row].sabnzbd_id = call.args.nzo_id

\* the fields upsert_download_job can assign, by the name of their argument
UpsertTextFields == {"title", "magazine_title", "link", "status", "issue_code", "issue_label"}

UpsertIntFields == {"issue_year", "issue_month", "issue_number"}

\* the fields of a row upsert_download_job has no argument for
UpsertFrame(job) ==
    <<job.sabnzbd_id, job.content_name, job.sab_status, job.progress, job.time_remaining,
      job.message, job.clean_name, job.staging_path, job.last_seen, job.created_at,
      job.completed_at, job.moved_at>>

\* old and new are a row before and after an upsert with arguments a: every
\* field that changed was supplied with a value other than the stored one
\* and now holds it; nothing else changed
OnlyDifferingFieldsChange(old, new, a) ==
    /\ \A f \in UpsertTextFields \cup UpsertIntFields :
          new[f] # old[f] => (a[f] # old[f] /\ new[f] = a[f])
    /\ UpsertFrame(new) = UpsertFrame(old)

\* a step that is a call of upsert_download_job hitting an existing row
IsUpdateCall == now' = now /\ call'.kind = "update"

\* C5, as claimed: a second upsert for an id that has a row changes only
\* the fields whose supplied value differs from the stored one, leaves the
\* others, and sets updated_at to the time of the call.
C5_AlwaysRefreshesUpdatedAt ==
    [][IsUpdateCall =>
          /\ OnlyDifferingFieldsChange(jobs[call'.row], jobs'[call'.row], call'.args)
          /\ jobs'[call'.row].updated_at = now]_vars

\* C5, amended: a second upsert for an id that has a row changes only the
\* fields whose supplied value differs from the stored one and leaves the
\* others; updated_at is set to the time of the call when at least one field
\* changed and keeps its value when none did.
C5_RefreshesUpdatedAtOnChange ==
    [][IsUpdateCall =>
          LET old == jobs[call'.row]
              new == jobs'[call'.row]
          IN /\ OnlyDifferingFieldsChange(old, new, call'.args)
             /\ \A k \in 1..Len(jobs) : k # call'.row => jobs'[k] = jobs[k]
             /\ Len(jobs') = Len(jobs)
             /\ new.updated_at =
                   IF \E f \in UpsertTextFields \cup UpsertIntFields : new[f] # old[f]
                   THEN now ELSE old.updated_at]_vars

\* an upsert on an existing row changed a field after time had passed and
\* kept the title, for which it supplied no value
C5_Witness ==
    /\ call.kind = "update"
    /\ jobs[call.row].created_at < now
    /\ jobs[call.row].updated_at = now
    /\ call.args.title = None
    /\ jobs[call.row].title # None
    /\ jobs[call.row].link = call.args.link

(***************************************************************************)
(* Properties of the monitor (SpecMonitor)                                 *)
(***************************************************************************)
\* the mtime m is at least settle_seconds before the time t
Settled(m, t) == t - m >= SettleSeconds

\* the entry and every descendant of it are settled at the time t
AllSettled(entry, t) ==
    /\ entry # Absent
    /\ Settled(entry.mtime, t)
    /\ \A m \in entry.kids : Settled(m, t)

\* C12: an entry is ready exactly when its own modification time is at
\* least settle_seconds in the past and, for a directory, that of every
\* descendant too; the monitor hands no entry that is not ready to the
\* import: the round of the scan that visits such an entry leaves the job
\* table and the downloads directory as they are.
C12_ReadyExactlyWhenSettled ==
    [][\A n \in EntryNames :
          (mpc = "scan" /\ n \in entries /\ n \notin entries') =>
              /\ call'.ready <=> AllSettled(downloads[n], now)
              /\ ~AllSettled(downloads[n], now) =>
                    (~call'.handed /\ jobs' = jobs /\ downloads' = downloads)]_vars

\* the scan has just visited a directory that is settled itself while a
\* file in it was written less than settle_seconds ago, with a completed
\* job waiting for it, and skipped it
C12_Witness ==
    /\ call.kind = "scan_entry"
    /\ mpc = "idle"
    /\ downloads[call.name] # Absent
    /\ Settled(downloads[call.name].mtime, now)
    /\ \E m \in downloads[call.name].kids : m = now
    /\ ~call.ready
    /\ \E i \in 1..Len(jobs) : jobs[i].status = "completed"

(***************************************************************************)
(* Properties of the life of a download (SpecFlow)                         *)
(***************************************************************************)
\* the step is a round of the monitor scan (one entry visited)
MonitorRound == mpc = "scan" /\ entries' # entries

\* row i has the status st after the step and had another one (or did not
\* exist) before it
Becomes(i, st) ==
    /\ i \in 1..Len(jobs')
    /\ jobs'[i].status = st
    /\ (i > Len(jobs) \/ jobs[i].status # st)

\* C13: the status of a job becomes moved only in a round of the monitor
\* scan that imports a ready entry of the downloads directory for it, and
\* only when the status of the job was completed or processing as the
\* monitor matched it; no tracker step and no enqueue writes moved.
C13_MovedOnlyByMonitorImport ==
    [][\A i \in 1..Len(jobs') :
          Becomes(i, "moved") =>
              /\ MonitorRound
              /\ tpc' = tpc
              /\ i <= Len(jobs)
              /\ jobs[i].status \in {"completed", "processing"}
              /\ \E n \in entries \ entries' :
                    /\ AllSettled(downloads[n], now)
                    /\ EntryMatches(jobs[i], n)
                    /\ downloads'[n] = Absent]_vars

\* the monitor imported the download of a completed job, which is moved now
C13_Witness ==
    /\ call.kind = "scan_entry"
    /\ call.outcome = "ok"
    /\ call.matched = "completed"
    /\ jobs[call.job].status = "moved"
    /\ jobs[call.job].moved_at = now

\* C14: a job reaches completed before moved: every job whose status is
\* moved had the status completed at some earlier point.
C14_CompletedBeforeMoved ==
    \A i \in 1..Len(jobs) : jobs[i].status = "moved" => "completed" \in past[i]

\* C14, as the monitor has it: a job whose status becomes moved had the
\* status completed or processing when the import of its download began;
\* a job the tracker saw processing can be moved without ever having been
\* completed.
C14_CompletedOrProcessingBeforeMoved ==
    [][\A i \in 1..Len(jobs') :
          Becomes(i, "moved") =>
              (i <= Len(jobs) /\ jobs[i].status \in {"completed", "processing"})]_vars

\* a moved job that went from queued to processing (SABnzbd checking it) and
\* was imported from there
C14_Witness ==
    \E i \in 1..Len(jobs) :
        /\ jobs[i].status = "moved"
        /\ past[i] = {"queued", "processing", "moved"}
        /\ call.kind = "scan_entry"
        /\ call.job = i
        /\ call.matched = "processing"

\* C18: a job the monitor marked moved while a tracker cycle was waiting
\* for the queue and history snapshots keeps its status and the fields the
\* monitor wrote (message, clean name, moved_at, cleared staging path) when
\* that cycle goes on to its reconciliation loop and its sweep.
C18_TrackerKeepsMonitorWrite ==
    [][(Reconciling \/ Sweeping) =>
          \A i \in 1..Len(jobs) :
              jobs[i].status = "moved" =>
                  /\ jobs'[i].status = "moved"
                  /\ jobs'[i].message = jobs[i].message
                  /\ jobs'[i].clean_name = jobs[i].clean_name
                  /\ jobs'[i].moved_at = jobs[i].moved_at
                  /\ jobs'[i].staging_path = jobs[i].staging_path
                  /\ jobs'[i].sab_status = jobs[i].sab_status
                  /\ jobs'[i].updated_at = jobs[i].updated_at]_vars

\* the only job of the table was active when the cycle began, the monitor
\* moved it during the wait, and the reconciliation loop has run with the
\* job in its history snapshot
C18_Witness ==
    /\ tpc = "sweep"
    /\ Len(jobs) = 1
    /\ jobs[1].status = "moved"
    /\ jobs[1].message = "Moved to library"
    /\ jobs[1].staging_path = None
    /\ jobs[1].sabnzbd_id \in DOMAIN history_map

\* the statuses the tracker takes from the live data of SABnzbd
LiveStatuses == {"queued", "downloading", "processing", "paused", "completed"}

IssueFields(job) ==
    <<job.issue_code, job.issue_label, job.issue_year, job.issue_month, job.issue_number>>

\* a step of the tracker (reconciliation, auto-fail sweep) or of the
\* monitor (import of an entry, with the moved transition at its end)
TrackerOrMonitorStep ==
    \/ tpc = "fetch" /\ tpc' = "sweep"
    \/ tpc = "sweep" /\ tpc' = "idle"
    \/ mpc = "scan" /\ entries' # entries

\* C31: the reconciliation of the tracker, its auto-fail sweep, the import
\* of an entry and the moved transition leave issue_code, issue_label,
\* issue_year, issue_month and issue_number of every row as they were.
C31_IssueFieldsKept ==
    [][TrackerOrMonitorStep =>
          /\ Len(jobs') = Len(jobs)
          /\ \A i \in 1..Len(jobs) : IssueFields(jobs'[i]) = IssueFields(jobs[i])]_vars

\* a row the tracker saw downloading and completed and the monitor
\* imported and marked moved still holds the fields of ResultB
C31_Witness ==
    \E i \in 1..Len(jobs) :
        /\ IssueFields(jobs[i]) = <<"20240006", "Issue 6 2024", 2024, NoInt, 6>>
        /\ jobs[i].status = "moved"
        /\ {"downloading", "completed", "processing"} \subseteq past[i]

(***************************************************************************)
(* Properties of the auto-fail sweep (SpecSweep)                           *)
(***************************************************************************)
\* the stamp x is set and less than the threshold before now
Within(x) == x # NoInt /\ now - x < AutoFailMinutes

\* the step turns row i into failed
Fails(i) == jobs[i].status # "failed" /\ jobs'[i].status = "failed"

\* C20: the sweep runs once per tracker cycle, after the reconciliation
\* loop; it fails only jobs that are pending, queued, downloading,
\* processing or paused; and it does not fail a job for which one of
\* last_seen, updated_at and created_at is within the threshold (the
\* threshold is compared with the most recent of the three).
C20_SweepUsesMostRecentStamp ==
    [][/\ (tpc # "sweep" /\ tpc' = "sweep") => Reconciling
       /\ tpc = "sweep" => Sweeping
       /\ Sweeping =>
             \A i \in 1..Len(jobs) :
                 /\ Fails(i) => jobs[i].status \in WatchedStatuses
                 /\ (Within(jobs[i].last_seen) \/ Within(jobs[i].updated_at)
                        \/ Within(jobs[i].created_at)) => ~Fails(i)]_vars

\* C20, as _auto_fail_jobs has it: the sweep runs once per tracker cycle,
\* after the reconciliation loop; with auto-fail enabled and a positive
\* threshold it fails exactly the jobs that are pending, queued,
\* downloading, processing or paused and whose reference is at least the
\* threshold old, the reference being last_seen when the tracker has set
\* it, else updated_at; a later updated_at (left by an upsert) does not
\* protect a job whose last_seen is that old. Every other job is left as
\* it is.
C20_SweepUsesLastSeenFirst ==
    [][/\ (tpc # "sweep" /\ tpc' = "sweep") => Reconciling
       /\ tpc = "sweep" => Sweeping
       /\ Sweeping =>
             \A i \in 1..Len(jobs) :
                 LET reference == IF jobs[i].last_seen # NoInt THEN jobs[i].last_seen
                                  ELSE jobs[i].updated_at
                 IN IF /\ auto_fail
                       /\ AutoFailMinutes > 0
                       /\ jobs[i].status \in WatchedStatuses
                       /\ now - reference >= AutoFailMinutes
                    THEN /\ jobs'[i].status = "failed"
                         /\ jobs'[i].sab_status = "Failed"
                         /\ jobs'[i].last_seen = now
                    ELSE jobs'[i] = jobs[i]]_vars

\* the sweep has just failed a job that an upsert had set back to queued
\* within the threshold, on a last_seen that was older
C20_Witness ==
    /\ tpc = "idle"
    /\ auto_fail
    /\ \E i \in 1..Len(jobs) :
          /\ jobs[i].status = "failed"
          /\ jobs[i].message = "Auto-failed without SABnzbd progress."
          /\ jobs[i].sab_status = "Failed"
          /\ jobs[i].last_seen = now
          /\ jobs[i].updated_at = now
          /\ jobs[i].progress = 50
          /\ now - jobs[i].created_at >= AutoFailMinutes

(***************************************************************************)
(* Properties of the issue parser (SpecParse)                              *)
(***************************************************************************)
\* the words of the parsed title after the magazine's name
ParsedWords == Split(ReplaceAll(StripMagazineTitle(call.title, call.magazine_title)))

\* a word that carries no date information: no digit, no month, no season,
\* no issue or volume noun
PlainWord(w) ==
    /\ \A i \in 1..Len(w) : ~IsDigitChar(w[i])
    /\ Month2Num(w) = 0
    /\ TwoMonths(w) = <<0, 0>>
    /\ ~IsNoun(w, ISSUE_NOUNS \cup VOLUME_NOUNS)

\* a word of six digits whose first four are a valid year at the call
YearFirstToken(w) ==
    IsDigit(w) /\ Len(w) = 6 /\ 1900 <= IntOf(SubSeq(w, 1, 4)) /\ IntOf(SubSeq(w, 1, 4)) <= call.utc_year + 1

\* C15: a title whose only date information is one six-digit token with a
\* valid year in its first four digits gets the issue code made of that year
\* and the token's last two digits, that is the token itself.
C15_SixDigitTokenIsIssueCode ==
    call.kind = "parse_issue" =>
        \A p \in 1..Len(ParsedWords) :
            (/\ YearFirstToken(ParsedWords[p])
             /\ \A q \in 1..Len(ParsedWords) : q # p => PlainWord(ParsedWords[q]))
            => /\ call.metadata.found
               /\ call.metadata.issue_code = ParsedWords[p]

\* the dateparts get_dateparts resolved for the parsed title
ParsedDateparts ==
    GetDateparts(StripMagazineTitle(call.title, call.magazine_title), call.utc_year)

\* the styles of a year with an issue number, or of an issue number alone:
\* after an issue noun (10, 11), next to the year (12), in one token of six
\* digits (13), alone (14), in one token year/issue (16)
IssueNumberStyles == {10, 11, 12, 13, 14, 16}

\* the styles of a month, or of a day and a month, with a year
MonthYearStyles == 1..7

\* C32: issue_code follows the resolved style: for an issue-number style,
\* with or without an issue noun in the title, it is the year followed by
\* the issue number padded to 4 digits, or the padded issue number alone
\* when no year was found; for a month+year style it is year-month-day
\* with 2-digit month and day; for the pure-year style it is the year.
C32_IssueCodeFollowsStyle ==
    call.kind = "parse_issue" =>
        \A d \in {ParsedDateparts} :
            /\ (d.style \in IssueNumberStyles /\ d.issue # 0) =>
                   call.metadata.issue_code =
                       (IF d.year # 0 THEN DigitsOf(d.year) ELSE <<>>) \o Padded(d.issue, 4)
            /\ (d.style \in MonthYearStyles /\ d.issue = 0) =>
                   call.metadata.issue_code =
                       DigitsOf(d.year) \o <<"-">> \o Padded(d.month, 2) \o <<"-">>
                       \o Padded(d.day, 2)
            /\ d.style = 15 => call.metadata.issue_code = DigitsOf(d.year)

\* the row of the month table that holds a name
RowOf(name) == CHOOSE f \in 1..12 : name \in MONTH_NAMES[f]

\* the column of the full month names of a language of the table
FullNames(language) ==
    CASE language = Chars("en") -> 1
      [] language = Chars("es") -> 3
      [] language = Chars("de") -> 5

\* C16: a title that, after the magazine's name, is a month name of the
\* table followed by a valid four-digit year parses to that month and that
\* year, labelled with the month's full name in the requested language and
\* the year; "Fernsehwoche März 2024" of Fernsehwoche in German gives month
\* 3, year 2024 and the label "März 2024".
C16_MonthNameThenYear ==
    call.kind = "parse_issue" =>
        /\ (/\ Len(ParsedWords) = 2
            /\ ParsedWords[1] \in TableNames
            /\ IsDigit(ParsedWords[2]) /\ Len(ParsedWords[2]) = 4
            /\ 1900 <= IntOf(ParsedWords[2]) /\ IntOf(ParsedWords[2]) <= call.utc_year + 1
            /\ call.language \in {Chars("en"), Chars("es"), Chars("de")})
           => /\ call.metadata.found
              /\ call.metadata.month = RowOf(ParsedWords[1])
              /\ call.metadata.year = IntOf(ParsedWords[2])
              /\ call.metadata.label =
                     BASE_MONTH_TABLE[RowOf(ParsedWords[1])][FullNames(call.language)]
                     \o <<" ">> \o ParsedWords[2]
        /\ (/\ call.title = Chars("Fernsehwoche März 2024")
            /\ call.magazine_title = "Fernsehwoche"
            /\ call.language = Chars("de"))
           => /\ call.metadata.found
              /\ call.metadata.month = 3
              /\ call.metadata.year = 2024
              /\ call.metadata.label = Chars("März 2024")

\* parse_issue has returned for "Fernsehwoche März 2024" of Fernsehwoche in
\* German, the name stripped and the month found by its German name
C16_Witness ==
    /\ call.kind = "parse_issue"
    /\ call.title = Chars("Fernsehwoche März 2024")
    /\ call.magazine_title = "Fernsehwoche"
    /\ call.language = Chars("de")
    /\ ParsedWords = <<Chars("März"), Chars("2024")>>
    /\ call.metadata.found
    /\ call.metadata.issue_code = <<"2", "0", "2", "4", "-", "0", "3", "-", "0", "1">>

\* the issue the parser resolved a title to
ResolvedIssue(metadata) == <<metadata.year, metadata.month, metadata.issue_number>>

\* C36: two releases of one magazine that the parser resolves to different
\* issues (another issue number, year or month) never get the same
\* IssueIdentity; so two titles "<year> <issue number>" with different issue
\* numbers get different identities.
C36_DifferentIssuesDifferentKeys ==
    (/\ call.kind = "parse_pair"
     /\ call.metadata[1].found /\ call.metadata[2].found
     /\ ResolvedIssue(call.metadata[1]) # ResolvedIssue(call.metadata[2]))
    => call.keys[1] # call.keys[2]

(***************************************************************************)
(* Properties of _issue_identifier (SpecKey)                               *)
(***************************************************************************)
\* the key the priority order gives, with TitleOf the spelling of the title
\* it ends on
KeyByPriority(c, TitleOf(_)) ==
    LET magazine == LowerSeq(StripRight(StripLeft(Chars(c.magazine_title))))
        fields == IdentifierParts(c.issue_year, c.issue_month, c.issue_number)
    IN IF c.magazine_title \in {None, ""} THEN NoKey
       ELSE IF c.issue_code \notin {None, ""}
            THEN magazine \o Sep \o Chars("code") \o Sep \o Chars(c.issue_code)
       ELSE IF <<c.issue_year, c.issue_month, c.issue_number>> # <<NoInt, NoInt, NoInt>>
            THEN magazine \o Sep \o fields
       ELSE IF c.fallback_title \notin {None, ""}
            THEN magazine \o Sep \o Chars("title") \o Sep \o TitleOf(c.fallback_title)
       ELSE NoKey

\* C33: the IssueIdentity is magazine::code::<issue_code> when an issue code
\* is present, else magazine::<the present ones of Y<year>, M<month>,
\* N<number> joined by "-">, else magazine::title::<the raw title>, and none
\* exactly when the magazine title is empty or none of code, year, month,
\* number and title is there.
C33_KeyEndsOnRawTitle ==
    call.kind = "issue_identifier" => call.key = KeyByPriority(call, Chars)

NormalTitle(s) == LowerSeq(StripRight(StripLeft(Chars(s))))

\* C33, amended: the same priority order, whose last form holds the title
\* stripped and in lower case.
C33_KeyEndsOnNormalTitle ==
    /\ call.kind = "issue_identifier" => call.key = KeyByPriority(call, NormalTitle)
    /\ call.kind = "issue_identifier" =>
           (call.key = NoKey <=>
               \/ call.magazine_title \in {None, ""}
               \/ /\ call.issue_code \in {None, ""}
                  /\ call.issue_year = NoInt /\ call.issue_month = NoInt
                  /\ call.issue_number = NoInt
                  /\ call.fallback_title \in {None, ""})

C33_Witness ==
    /\ call.kind = "issue_identifier"
    /\ call.magazine_title = "Wired"
    /\ call.issue_code = ""
    /\ call.issue_year = NoInt /\ call.issue_month = NoInt /\ call.issue_number = NoInt
    /\ call.fallback_title = "WIRED.2024.06"
    /\ call.key = Chars("wired") \o Sep \o Chars("title") \o Sep \o Chars("wired.2024.06")

(***************************************************************************)
(* Properties of scan_now without a running loop (SpecTrigger)             *)
(***************************************************************************)
\* C38: one manual scan_now while the periodic loop is not running runs
\* one scan body and no more: it does not start the periodic loop, so the
\* task of the loop never comes to run a scan of its own.
C38_TriggerLeavesLoopOff == spc[LoopTask] = "off"

\* a step in which scan_now is called while the task of _run does not exist
TriggerWithoutLoop ==
    /\ spc[LoopTask] = "off"
    /\ \E m \in Manuals : spc[m] = "idle" /\ spc'[m] # "idle"

\* C38, amended: scan_now called while the periodic loop is not running
\* starts the loop, which then waits for the scan lock, and goes on to its
\* own scan body (or raises, SABnzbd not being configured); the loop is
\* started by nothing else.
C38_TriggerStartsLoop ==
    [][/\ TriggerWithoutLoop =>
             /\ spc'[LoopTask] = "acquire"
             /\ \A m \in Manuals :
                   spc'[m] # spc[m] =>
                       IF configured THEN spc'[m] = "search" /\ scan_lock'
                       ELSE ret'[m] = Raised
       /\ (spc[LoopTask] = "off" /\ spc'[LoopTask] # "off") => TriggerWithoutLoop]_vars

\* the started loop runs a scan body of its own after the manual scan ended
C38_Witness ==
    /\ spc[LoopTask] = "search"
    /\ \E m \in Manuals : ret[m].kind = "returned" /\ ret[m].started

(***************************************************************************)
(* Properties of repeated scans under the cap (SpecSteadyFair)             *)
(***************************************************************************)
\* the result passes the guard of its magazine and has an IssueIdentity
Admitted(r) ==
    LET guards == LoadGuards(Magazines)
        magazine_key == Lower(Strip(r.magazine_title))
    IN /\ Truthy(r.magazine_title)
       /\ (magazine_key \in DOMAIN guards => PassesGuard(r, guards[magazine_key]))
       /\ ResultKey(r) # NoKey

\* the job index of the table has the bucket of the result active, or the
\* link of the result in it
Covered(r) ==
    LET job_index == BuildJobIndex(jobs)
    IN /\ ResultKey(r) \in DOMAIN job_index
       /\ \/ job_index[ResultKey(r)].active
          \/ r.link \in job_index[ResultKey(r)].links

\* C39: under scans that repeat over one result list, with every NZB taken
\* by SABnzbd and answered with an nzo_id, each result that passes its guard
\* and has an IssueIdentity comes to have its bucket active or its link
\* recorded in the job index, whatever the cap of a scan.
C39_NoEligibleResultStarves ==
    \A r \in Catalog :
        (/\ call.kind = "results"
         /\ \E n \in 1..Len(call.results) : call.results[n] = r
         /\ Admitted(r)) ~> Covered(r)

\* a scan under a cap of one left an admitted result of the list uncovered,
\* which a later scan then took up
C39_Witness ==
    /\ max_results = 1
    /\ Len(jobs) = 2
    /\ \A n \in 1..Len(call.results) : Admitted(call.results[n]) /\ Covered(call.results[n])
    /\ \E n \in 1..Len(call.results) : call.results[n].link = jobs[2].link

(***************************************************************************)
(* Properties of shutdown (SpecStop)                                       *)
(***************************************************************************)
\* C34: shutdown cancels and awaits the tasks of all three loops: once
\* shutdown_event has returned, neither the scheduler nor the tracker nor
\* the monitor is running, and none of them begins another cycle.
C34_ShutdownStopsAllLoops ==
    call.kind = "shutdown" => spc[LoopTask] = "off" /\ tpc = "off" /\ mpc = "off"

====
